---------------------------- MODULE Spec2Model ----------------------------
(***************************************************************************)
(* A model of the notion-image-cdn service: URL validation, URL parsing,   *)
(* cache keying, the edge cache (L2), the persistent stores (L3), the      *)
(* single-flight coordinator and the request pipeline built from them.     *)
(*                                                                         *)
(* Strings are sequences of one-character strings, so that every string    *)
(* operation of the source (split, startsWith, replace, toLowerCase,       *)
(* substring, length) is computed on characters.                           *)
(***************************************************************************)
EXTENDS Integers, Sequences, FiniteSets, TLC

(***************************************************************************)
(* Characters and string helpers (JavaScript String methods).              *)
(***************************************************************************)
Digits == {"0","1","2","3","4","5","6","7","8","9"}

LowerAlpha == {"a","b","c","d","e","f","g","h","i","j","k","l","m",
               "n","o","p","q","r","s","t","u","v","w","x","y","z"}

UpperAlpha == {"A","B","C","D","E","F","G","H","I","J","K","L","M",
               "N","O","P","Q","R","S","T","U","V","W","X","Y","Z"}

HexDigits == Digits \cup {"a","b","c","d","e","f","A","B","C","D","E","F"}

LowerOf == [c \in UpperAlpha |->
              CASE c = "A" -> "a" [] c = "B" -> "b" [] c = "C" -> "c" [] c = "D" -> "d"
                [] c = "E" -> "e" [] c = "F" -> "f" [] c = "G" -> "g" [] c = "H" -> "h"
                [] c = "I" -> "i" [] c = "J" -> "j" [] c = "K" -> "k" [] c = "L" -> "l"
                [] c = "M" -> "m" [] c = "N" -> "n" [] c = "O" -> "o" [] c = "P" -> "p"
                [] c = "Q" -> "q" [] c = "R" -> "r" [] c = "S" -> "s" [] c = "T" -> "t"
                [] c = "U" -> "u" [] c = "V" -> "v" [] c = "W" -> "w" [] c = "X" -> "x"
                [] c = "Y" -> "y" [] c = "Z" -> "z"]

\* String.prototype.toLowerCase
toLowerCase(s) == [i \in 1..Len(s) |-> IF s[i] \in UpperAlpha THEN LowerOf[s[i]] ELSE s[i]]

MinOf(S) == CHOOSE x \in S : \A y \in S : x <= y

MaxOf(S) == CHOOSE x \in S : \A y \in S : x >= y

\* The first index >= from of a character of the set C in s, 0 when there is none.
IndexOfAny(s, C, from) ==
    LET I == {i \in from..Len(s) : s[i] \in C}
    IN  IF I = {} THEN 0 ELSE MinOf(I)

\* The last index of character c in s, 0 when there is none.
LastIndexOf(s, c) ==
    LET I == {i \in 1..Len(s) : s[i] = c}
    IN  IF I = {} THEN 0 ELSE MaxOf(I)

\* s.substring(from - 1), with a 1-based from
Tail1(s, from) == SubSeq(s, from, Len(s))

\* String.prototype.startsWith
startsWith(s, p) == Len(p) <= Len(s) /\ SubSeq(s, 1, Len(p)) = p

\* String.prototype.endsWith
endsWith(s, p) == Len(p) <= Len(s) /\ SubSeq(s, Len(s) - Len(p) + 1, Len(s)) = p

\* String.prototype.includes
includes(s, p) == \E i \in 1..(Len(s) - Len(p) + 1) : SubSeq(s, i, i + Len(p) - 1) = p

\* String.prototype.split(c) for a one-character separator
RECURSIVE split(_, _)
split(s, c) ==
    LET i == IndexOfAny(s, {c}, 1)
    IN  IF i = 0 THEN <<s>>
        ELSE <<SubSeq(s, 1, i - 1)>> \o split(Tail1(s, i + 1), c)

\* Array.prototype.filter(Boolean) on an array of strings: drops the empty ones
RECURSIVE filterBoolean(_)
filterBoolean(a) ==
    IF a = <<>> THEN <<>>
    ELSE (IF Head(a) = <<>> THEN <<>> ELSE <<Head(a)>>) \o filterBoolean(Tail(a))

\* Array.prototype.join(c)
RECURSIVE join(_, _)
join(a, c) ==
    IF a = <<>> THEN <<>>
    ELSE IF Len(a) = 1 THEN a[1]
    ELSE a[1] \o c \o join(Tail(a), c)

\* s.replace(/[...]/g, r): every character of the set C replaced by r
replaceChars(s, C, r) == [i \in 1..Len(s) |-> IF s[i] \in C THEN r ELSE s[i]]

\* Number(part) / parseInt(part, 10) of a string of decimal digits
DigitVal == [c \in Digits |->
               CASE c = "0" -> 0 [] c = "1" -> 1 [] c = "2" -> 2 [] c = "3" -> 3
                 [] c = "4" -> 4 [] c = "5" -> 5 [] c = "6" -> 6 [] c = "7" -> 7
                 [] c = "8" -> 8 [] c = "9" -> 9]

RECURSIVE NumberOf(_)
NumberOf(s) ==
    IF s = <<>> THEN 0
    ELSE 10 * NumberOf(SubSeq(s, 1, Len(s) - 1)) + DigitVal[s[Len(s)]]

DigitChar == [d \in 0..9 |->
                CASE d = 0 -> "0" [] d = 1 -> "1" [] d = 2 -> "2" [] d = 3 -> "3"
                  [] d = 4 -> "4" [] d = 5 -> "5" [] d = 6 -> "6" [] d = 7 -> "7"
                  [] d = 8 -> "8" [] d = 9 -> "9"]

\* String(n) of a natural number
RECURSIVE StringOf(_)
StringOf(n) ==
    IF n < 10 THEN <<DigitChar[n]>>
    ELSE StringOf(n \div 10) \o <<DigitChar[n % 10]>>

(***************************************************************************)
(* new URL(raw): the WHATWG URL parser, for the URL shapes the service     *)
(* meets.  Modelled: scheme (lower-cased), the slashes after a special     *)
(* scheme, userinfo, host (lower-cased, forbidden characters rejected),    *)
(* port (dropped when it is the scheme's default), path (empty path is     *)
(* "/"), query and fragment.  Not modelled: dot-segment removal,           *)
(* percent-encoding of path characters, IDNA, and the rewriting of         *)
(* non-canonical IPv4/IPv6 literals; the inputs used below contain none    *)
(* of these.                                                               *)
(***************************************************************************)
SpecialSchemes == { <<"h","t","t","p","s">>, <<"h","t","t","p">>, <<"f","t","p">>,
                    <<"w","s">>, <<"w","s","s">> }

DefaultPort(scheme) ==
    CASE scheme = <<"h","t","t","p","s">> -> <<"4","4","3">>
      [] scheme = <<"w","s","s">> -> <<"4","4","3">>
      [] scheme = <<"h","t","t","p">> -> <<"8","0">>
      [] scheme = <<"w","s">> -> <<"8","0">>
      [] scheme = <<"f","t","p">> -> <<"2","1">>
      [] OTHER -> <<>>

SchemeChars == LowerAlpha \cup UpperAlpha \cup Digits \cup {"+", "-", "."}

ForbiddenHostChars == {" ", "#", "/", ":", "<", ">", "?", "@", "[", "\\", "]", "^", "|", "%"}

UrlFailure == [ok |-> FALSE]

\* The number of leading characters of s that are in C
RECURSIVE LeadingRun(_, _)
LeadingRun(s, C) ==
    IF s # <<>> /\ Head(s) \in C THEN 1 + LeadingRun(Tail(s), C) ELSE 0

\* host[:port] of an authority whose userinfo has been removed
ParseHostPort(hp, scheme) ==
    LET bracket == hp # <<>> /\ Head(hp) = "["
        close   == LastIndexOf(hp, "]")
        colon   == IF bracket
                     THEN (IF close > 0 /\ close < Len(hp) /\ hp[close + 1] = ":"
                             THEN close + 1 ELSE 0)
                     ELSE LastIndexOf(hp, ":")
        hostRaw == IF colon = 0 THEN hp ELSE SubSeq(hp, 1, colon - 1)
        portRaw == IF colon = 0 THEN <<>> ELSE Tail1(hp, colon + 1)
        host    == toLowerCase(hostRaw)
        hostOk  == /\ host # <<>>
                   /\ IF bracket
                        THEN close = Len(hostRaw) /\ Len(hostRaw) > 2
                        ELSE \A i \in 1..Len(host) : host[i] \notin ForbiddenHostChars
        portOk  == /\ \A i \in 1..Len(portRaw) : portRaw[i] \in Digits
                   /\ Len(portRaw) <= 5
                   /\ NumberOf(portRaw) <= 65535
        port    == IF portRaw = <<>> \/ ~portOk THEN <<>>
                   ELSE IF StringOf(NumberOf(portRaw)) = DefaultPort(scheme) THEN <<>>
                   ELSE StringOf(NumberOf(portRaw))
    IN  [ok |-> hostOk /\ portOk, hostname |-> host, port |-> port]

\* The pieces of what follows the authority: path, query and fragment
SplitPathQueryHash(afterAuth, special) ==
    LET q       == IndexOfAny(afterAuth, {"?"}, 1)
        h       == IndexOfAny(afterAuth, {"#"}, 1)
        end     == IF h > 0 THEN h ELSE Len(afterAuth) + 1
        qIdx    == IF q > 0 /\ q < end THEN q ELSE 0
        pathRaw == SubSeq(afterAuth, 1, (IF qIdx > 0 THEN qIdx ELSE end) - 1)
        queryRaw == IF qIdx = 0 THEN <<>> ELSE SubSeq(afterAuth, qIdx + 1, end - 1)
        fragRaw == IF h = 0 THEN <<>> ELSE Tail1(afterAuth, h + 1)
    IN  [pathname |-> IF special
                        THEN (IF pathRaw = <<>> THEN <<"/">>
                              ELSE replaceChars(pathRaw, {"\\"}, "/"))
                        ELSE pathRaw,
         search   |-> IF queryRaw = <<>> THEN <<>> ELSE <<"?">> \o queryRaw,
         hash     |-> IF fragRaw = <<>> THEN <<>> ELSE <<"#">> \o fragRaw]

\* username and password of the userinfo that precedes the last "@"
SplitUserinfo(userinfo) ==
    LET ucolon == IndexOfAny(userinfo, {":"}, 1)
    IN  [username |-> IF ucolon = 0 THEN userinfo ELSE SubSeq(userinfo, 1, ucolon - 1),
         password |-> IF ucolon = 0 THEN <<>> ELSE Tail1(userinfo, ucolon + 1)]

Credentials(ui) ==
    IF ui.username = <<>> /\ ui.password = <<>> THEN <<>>
    ELSE ui.username \o (IF ui.password = <<>> THEN <<>> ELSE <<":">> \o ui.password) \o <<"@">>

HostOf(hp) == IF hp.port = <<>> THEN hp.hostname ELSE hp.hostname \o <<":">> \o hp.port

\* the URL record, from the parsed pieces
AssembleUrl(scheme, hasAuth, ui, hp, pqh) ==
    [ok       |-> TRUE,
     protocol |-> scheme \o <<":">>,
     username |-> ui.username,
     password |-> ui.password,
     hostname |-> hp.hostname,
     host     |-> HostOf(hp),
     pathname |-> pqh.pathname,
     search   |-> pqh.search,
     hash     |-> pqh.hash,
     href     |-> scheme \o <<":">> \o (IF hasAuth THEN <<"/","/">> ELSE <<>>)
                  \o Credentials(ui) \o HostOf(hp) \o pqh.pathname \o pqh.search \o pqh.hash]

NoHostPort == [ok |-> FALSE, hostname |-> <<>>, port |-> <<>>]

\* a URL with an authority: userinfo "@" host ":" port, then the rest
ParseWithAuthority(scheme, special, authority, at, afterAuth) ==
    LET hp == ParseHostPort(Tail1(authority, at + 1), scheme)
    IN  IF (special \/ authority # <<>>) /\ ~hp.ok THEN UrlFailure
        ELSE AssembleUrl(scheme, TRUE,
                         SplitUserinfo(IF at = 0 THEN <<>> ELSE SubSeq(authority, 1, at - 1)),
                         hp, SplitPathQueryHash(afterAuth, special))

\* afterSl: what follows the slashes that introduce the authority
ParseAuthority(scheme, special, afterSl, authEnd) ==
    ParseWithAuthority(scheme, special, SubSeq(afterSl, 1, authEnd - 1),
                       LastIndexOf(SubSeq(afterSl, 1, authEnd - 1), "@"),
                       Tail1(afterSl, authEnd))

AuthorityEnd(afterSl, special) ==
    LET i == IndexOfAny(afterSl, IF special THEN {"/", "\\", "?", "#"} ELSE {"/", "?", "#"}, 1)
    IN  IF i = 0 THEN Len(afterSl) + 1 ELSE i

\* rest: what follows "scheme:"
ParseAfterScheme(scheme, special, rest, slashes) ==
    IF special \/ slashes = 2
    THEN ParseAuthority(scheme, special, Tail1(rest, slashes + 1),
                        AuthorityEnd(Tail1(rest, slashes + 1), special))
    ELSE AssembleUrl(scheme, FALSE, SplitUserinfo(<<>>), NoHostPort,
                     SplitPathQueryHash(rest, special))

ParseScheme(schemeRaw, rest) ==
    IF ~(/\ schemeRaw[1] \in LowerAlpha \cup UpperAlpha
         /\ \A i \in 1..Len(schemeRaw) : schemeRaw[i] \in SchemeChars)
    THEN UrlFailure
    ELSE ParseAfterScheme(toLowerCase(schemeRaw),
                          toLowerCase(schemeRaw) \in SpecialSchemes,
                          rest,
                          IF toLowerCase(schemeRaw) \in SpecialSchemes
                          THEN LeadingRun(rest, {"/", "\\"})
                          ELSE IF startsWith(rest, <<"/","/">>) THEN 2 ELSE 0)

ParseUrl(raw) ==
    LET colon == IndexOfAny(raw, {":"}, 1)
    IN  IF colon <= 1 THEN UrlFailure
        ELSE ParseScheme(SubSeq(raw, 1, colon - 1), Tail1(raw, colon + 1))

(***************************************************************************)
(* lib/validator.ts                                                        *)
(***************************************************************************)
MAX_URL_LENGTH == 4096

Pow2(n) == 2 ^ n

\* A 32-bit word is kept as its four bytes, most significant first: the bits
\* of (result << 8) | octet are the same whether the word is read as signed
\* or, after >>> 0, as unsigned.
Word32Zero == <<0, 0, 0, 0>>

\* (result << 8) | octet, for 0 <= octet <= 255
ShiftLeft8Or(result, octet) == <<result[2], result[3], result[4], octet>>

\* ip >> n, the sign-propagating shift: the word read as a signed number
ShiftRightUnsigned_Signed(ip, n) ==
    (ip[1] * 65536 + ip[2] * 256 + ip[3]) \div Pow2(n - 8)
        - (IF ip[1] >= 128 THEN Pow2(32 - n) ELSE 0)

\* ip >>> n, for 8 <= n <= 31 (the unsigned right shifts isPrivateIPv4 makes)
ShiftRightUnsigned(ip, n) ==
    (ip[1] * 65536 + ip[2] * 256 + ip[3]) \div Pow2(n - 8)

\* /^\d{1,3}(\.\d{1,3}){3}$/.test(host)
MatchesDottedQuad(host) ==
    LET parts == split(host, ".")
    IN  /\ Len(parts) = 4
        /\ \A i \in 1..4 : /\ Len(parts[i]) \in 1..3
                           /\ \A j \in 1..Len(parts[i]) : parts[i][j] \in Digits

\* The null of parseIPv4
NoIp == <<>>

\* parseIPv4(host): the 32-bit address, or null
RECURSIVE parseIPv4Loop(_, _)
parseIPv4Loop(parts, result) ==
    IF parts = <<>> THEN result
    ELSE LET part  == Head(parts)
             octet == NumberOf(part)
         IN  IF Len(part) > 1 /\ Head(part) = "0" THEN NoIp
             ELSE IF octet < 0 \/ octet > 255 THEN NoIp
             ELSE parseIPv4Loop(Tail(parts), ShiftLeft8Or(result, octet))

parseIPv4(host) ==
    IF ~MatchesDottedQuad(host) THEN NoIp
    ELSE LET parts == split(host, ".")
         IN  IF Len(parts) # 4 THEN NoIp ELSE parseIPv4Loop(parts, Word32Zero)

isPrivateIPv4(ip) ==
    \/ ShiftRightUnsigned(ip, 24) = 0
    \/ ShiftRightUnsigned(ip, 24) = 10
    \/ ShiftRightUnsigned(ip, 22) = 100 * 4 + 1
    \/ ShiftRightUnsigned(ip, 24) = 127
    \/ ShiftRightUnsigned(ip, 16) = 169 * 256 + 254
    \/ ShiftRightUnsigned(ip, 20) = 172 * 16 + 1
    \/ ShiftRightUnsigned(ip, 8) = 192 * 65536
    \/ ShiftRightUnsigned(ip, 8) = 192 * 65536 + 2
    \/ ShiftRightUnsigned(ip, 16) = 192 * 256 + 168
    \/ ShiftRightUnsigned(ip, 17) = 198 * 128 + 9
    \/ ShiftRightUnsigned(ip, 8) = 198 * 65536 + 51 * 256 + 100
    \/ ShiftRightUnsigned(ip, 8) = 203 * 65536 + 113
    \/ ShiftRightUnsigned(ip, 28) = 14
    \/ ShiftRightUnsigned(ip, 28) = 15

isPrivateHost(hostname) ==
    LET bareHost == IF startsWith(hostname, <<"[">>) /\ endsWith(hostname, <<"]">>)
                      THEN SubSeq(hostname, 2, Len(hostname) - 1)
                      ELSE hostname
        mapped   == Tail1(bareHost, 8)
    IN  \/ hostname = <<"l","o","c","a","l","h","o","s","t">>
        \/ endsWith(hostname, <<".","l","o","c","a","l">>)
        \/ endsWith(hostname, <<".","i","n","t","e","r","n","a","l">>)
        \/ bareHost = <<":",":","1">>
        \/ bareHost = <<":",":">>
        \/ startsWith(bareHost, <<"f","c">>)
        \/ startsWith(bareHost, <<"f","d">>)
        \/ startsWith(toLowerCase(bareHost), <<"f","e","8","0">>)
        \/ /\ startsWith(toLowerCase(bareHost), <<":",":","f","f","f","f",":">>)
           /\ parseIPv4(mapped) # NoIp
           /\ isPrivateIPv4(parseIPv4(mapped))
        \/ /\ parseIPv4(hostname) # NoIp
           /\ isPrivateIPv4(parseIPv4(hostname))

Valid == [valid |-> TRUE, errorCode |-> "none"]

Invalid(code) == [valid |-> FALSE, errorCode |-> code]

\* validateHost with the allow-list consulted before the private-host test
validateHost_AllowListFirst(hostname, allowedDomains) ==
    IF hostname \in allowedDomains THEN Valid
    ELSE IF isPrivateHost(hostname) THEN Invalid("PRIVATE_HOST")
    ELSE Invalid("DOMAIN_NOT_ALLOWED")

\* the SSRF gate and the allow-list gate, on the lower-cased hostname
validateHost(hostname, allowedDomains) ==
    IF isPrivateHost(hostname) THEN Invalid("PRIVATE_HOST")
    ELSE IF hostname \notin allowedDomains THEN Invalid("DOMAIN_NOT_ALLOWED")
    ELSE Valid

\* the gates that read the parsed URL
validateParsed(parsed, allowedDomains) ==
    IF ~parsed.ok THEN Invalid("INVALID_URL")
    ELSE IF parsed.protocol # <<"h","t","t","p","s",":">> THEN Invalid("HTTPS_REQUIRED")
    ELSE IF parsed.username # <<>> \/ parsed.password # <<>> THEN Invalid("CREDENTIALS_IN_URL")
    ELSE validateHost(toLowerCase(parsed.hostname), allowedDomains)

validateImageUrl(rawUrl, allowedDomains) ==
    IF Len(rawUrl) = 0 THEN Invalid("MISSING_URL")
    ELSE IF Len(rawUrl) > MAX_URL_LENGTH THEN Invalid("URL_TOO_LONG")
    ELSE validateParsed(ParseUrl(rawUrl), allowedDomains)

\* ---------------------------------------------------------------------------
\* decodeURIComponent, as used by url-parser.ts.  A "%" must be followed by
\* two hex digits or the call throws URIError; an escape below 0x80 decodes to
\* its ASCII character.  Escapes of 0x80 and above start a UTF-8 sequence; the
\* inputs of this model contain no valid multi-byte sequence, so such an
\* escape is a malformed sequence and throws.  Control characters are kept as
\* the one opaque character "ctl"; the grave accent (0x60) is written "grave".
\* ---------------------------------------------------------------------------
Ascii ==
  <<
    " ", "!", "\"", "#", "$", "%", "&", "'", "(", ")", "*", "+", ",", "-", ".", "/",
    "0", "1", "2", "3", "4", "5", "6", "7", "8", "9", ":", ";", "<", "=", ">", "?",
    "@", "A", "B", "C", "D", "E", "F", "G", "H", "I", "J", "K", "L", "M", "N", "O",
    "P", "Q", "R", "S", "T", "U", "V", "W", "X", "Y", "Z", "[", "\\", "]", "^", "_",
    "grave", "a", "b", "c", "d", "e", "f", "g", "h", "i", "j", "k", "l", "m", "n", "o",
    "p", "q", "r", "s", "t", "u", "v", "w", "x", "y", "z", "{", "|", "}", "~"
  >>

HexVal(c) ==
    IF c \in Digits THEN DigitVal[c]
    ELSE CASE c \in {"a", "A"} -> 10 [] c \in {"b", "B"} -> 11 [] c \in {"c", "C"} -> 12
           [] c \in {"d", "D"} -> 13 [] c \in {"e", "E"} -> 14 [] c \in {"f", "F"} -> 15

CharOfCode(code) == IF code >= 32 /\ code <= 126 THEN Ascii[code - 31] ELSE "ctl"

\* TRUE when decodeURIComponent(s) throws URIError
RECURSIVE decodeThrows(_)
decodeThrows(s) ==
    IF s = <<>> THEN FALSE
    ELSE IF s[1] # "%" THEN decodeThrows(Tail(s))
    ELSE IF Len(s) < 3 \/ s[2] \notin HexDigits \/ s[3] \notin HexDigits THEN TRUE
    ELSE IF HexVal(s[2]) * 16 + HexVal(s[3]) >= 128 THEN TRUE
    ELSE decodeThrows(SubSeq(s, 4, Len(s)))

\* the value of decodeURIComponent(s) when it does not throw
RECURSIVE decodeURIComponent(_)
decodeURIComponent(s) ==
    IF s = <<>> THEN <<>>
    ELSE IF s[1] # "%" THEN <<s[1]>> \o decodeURIComponent(Tail(s))
    ELSE <<CharOfCode(HexVal(s[2]) * 16 + HexVal(s[3]))>> \o decodeURIComponent(SubSeq(s, 4, Len(s)))

\* ---------------------------------------------------------------------------
\* url-parser.ts
\* ---------------------------------------------------------------------------
NOTION_HOSTS ==
  << <<"p","r","o","d","-","f","i","l","e","s","-","s","e","c","u","r","e",".","s","3",".","u","s","-","w","e","s","t","-","2",".","a","m","a","z","o","n","a","w","s",".","c","o","m">>,
     <<"s","3",".","u","s","-","w","e","s","t","-","2",".","a","m","a","z","o","n","a","w","s",".","c","o","m">>,
     <<"f","i","l","e",".","n","o","t","i","o","n",".","s","o">>,
     <<"i","m","g",".","n","o","t","i","o","n","u","s","e","r","c","o","n","t","e","n","t",".","c","o","m">> >>

\* results of parseNotionUrl: null, a thrown URIError, or the parsed record
NotionNull == [kind |-> "null"]

NotionThrow == [kind |-> "throw"]

\* pathname.replace(/^prefix/, empty string)
StripPrefix(s, p) == IF startsWith(s, p) THEN Tail1(s, Len(p) + 1) ELSE s

\* a base URL that keeps the query string
BaseUrlOf_WithQuery(parsedUrl) == parsedUrl.href

BaseUrlOf(parsedUrl) ==
    parsedUrl.protocol \o <<"/", "/">> \o parsedUrl.host \o parsedUrl.pathname

ParsedNotionUrl(workspaceId, blockId, filename, parsedUrl) ==
    IF workspaceId = <<>> \/ blockId = <<>> \/ filename = <<>> THEN NotionNull
    ELSE [kind |-> "parsed", workspaceId |-> workspaceId, blockId |-> blockId,
          filename |-> filename, baseUrl |-> BaseUrlOf(parsedUrl), fullUrl |-> parsedUrl.href]

\* segments: pathname.split('/').filter(Boolean)
extractFromSegments(parsedUrl, segments) ==
    IF Len(segments) < 3 THEN NotionNull
    ELSE IF decodeThrows(segments[1]) \/ decodeThrows(segments[2])
            \/ decodeThrows(segments[Len(segments)]) THEN NotionThrow
    ELSE ParsedNotionUrl(decodeURIComponent(segments[1]), decodeURIComponent(segments[2]),
                         decodeURIComponent(segments[Len(segments)]), parsedUrl)

extractFromPathSegments(parsedUrl, pathname) ==
    extractFromSegments(parsedUrl, filterBoolean(split(pathname, "/")))

\* keyParts: the decoded S3 key, split on "/", without empty parts
extractFromKeyParts(parsedUrl, keyParts) ==
    IF Len(keyParts) < 3 THEN NotionNull
    ELSE ParsedNotionUrl(keyParts[1], keyParts[2], keyParts[Len(keyParts)], parsedUrl)

\* keyParts.shift() when the first part is 'prod-files-secure'
ShiftProdFilesSecure(allParts) ==
    IF allParts # <<>> /\ allParts[1] = <<"p","r","o","d","-","f","i","l","e","s","-","s","e","c","u","r","e">>
    THEN Tail(allParts) ELSE allParts

extractFromEncodedKey(parsedUrl, segments) ==
    IF Len(segments) < 2 \/ segments[1] # <<"s", "3">> THEN NotionNull
    ELSE IF decodeThrows(segments[2]) THEN NotionThrow
    ELSE extractFromKeyParts(parsedUrl,
             ShiftProdFilesSecure(filterBoolean(split(decodeURIComponent(segments[2]), "/"))))

extractFromNotionusercontent(parsedUrl) ==
    extractFromEncodedKey(parsedUrl, filterBoolean(split(parsedUrl.pathname, "/")))

\* the dispatch on the lower-cased hostname
parseNotionHost(parsed, hostname) ==
    IF hostname = NOTION_HOSTS[1] THEN extractFromPathSegments(parsed, parsed.pathname)
    ELSE IF hostname = NOTION_HOSTS[2]
           THEN extractFromPathSegments(parsed,
                    StripPrefix(parsed.pathname, <<"/","p","r","o","d","-","f","i","l","e","s","-","s","e","c","u","r","e">>))
    ELSE IF hostname = NOTION_HOSTS[3]
           THEN extractFromPathSegments(parsed, StripPrefix(parsed.pathname, <<"/","f","/","f">>))
    ELSE IF hostname = NOTION_HOSTS[4] THEN extractFromNotionusercontent(parsed)
    ELSE NotionNull

parseNotionParsed(parsed) ==
    IF ~parsed.ok THEN NotionNull ELSE parseNotionHost(parsed, toLowerCase(parsed.hostname))

parseNotionUrl(rawUrl) == parseNotionParsed(ParseUrl(rawUrl))

\* ---------------------------------------------------------------------------
\* The three places that derive the base URL a cache key is built from.
\* ---------------------------------------------------------------------------
NOTION_S3_HOST ==
    <<"h","t","t","p","s",":","/","/","p","r","o","d","-","f","i","l","e","s","-","s","e","c","u","r","e",".","s","3",".","u","s","-","w","e","s","t","-","2",".","a","m","a","z","o","n","a","w","s",".","c","o","m">>

\* GET /api/v1/proxy: parsed?.baseUrl ?? rawUrl.split('?')[0] ?? rawUrl
\* (evaluated only when parseNotionUrl did not throw)
BaseUrlOrRaw(parsed, rawUrl) ==
    IF parsed.kind = "parsed" THEN parsed.baseUrl ELSE split(rawUrl, "?")[1]

proxyCacheBaseUrl(rawUrl) == BaseUrlOrRaw(parseNotionUrl(rawUrl), rawUrl)

\* GET /img/:workspaceId/:blockId/:filename
containsPathTraversal(segment) ==
    includes(segment, <<".", ".">>) \/ includes(segment, <<"/">>) \/ includes(segment, <<"\\">>)

stableCacheBaseUrl(workspaceId, blockId, filename) ==
    NOTION_S3_HOST \o <<"/">> \o workspaceId \o <<"/">> \o blockId \o <<"/">> \o filename

\* DELETE /api/v1/cache?url=: url.split('?')[0] ?? url
purgeBaseUrl(url) == split(url, "?")[1]

\* ---------------------------------------------------------------------------
\* Source URLs the requests of this model carry.
\* ---------------------------------------------------------------------------
VirtualHostedUrl ==
    <<"h","t","t","p","s",":","/","/","p","r","o","d","-","f","i","l","e","s","-","s","e","c","u","r","e",".","s","3",".","u","s","-","w","e","s","t","-","2",".","a","m","a","z","o","n","a","w","s",".","c","o","m","/","w","s","1","/","b","l","k","1","/","a",".","p","n","g","?","X","-","A","m","z","-","S","i","g","n","a","t","u","r","e","=","1">>

\* the same object, signed again later: differs in the query string only
ResignedUrl ==
    <<"h","t","t","p","s",":","/","/","p","r","o","d","-","f","i","l","e","s","-","s","e","c","u","r","e",".","s","3",".","u","s","-","w","e","s","t","-","2",".","a","m","a","z","o","n","a","w","s",".","c","o","m","/","w","s","1","/","b","l","k","1","/","a",".","p","n","g","?","X","-","A","m","z","-","S","i","g","n","a","t","u","r","e","=","2">>

\* another block of the same workspace
OtherBlockUrl ==
    <<"h","t","t","p","s",":","/","/","p","r","o","d","-","f","i","l","e","s","-","s","e","c","u","r","e",".","s","3",".","u","s","-","w","e","s","t","-","2",".","a","m","a","z","o","n","a","w","s",".","c","o","m","/","w","s","1","/","b","l","k","2","/","a",".","p","n","g","?","X","-","A","m","z","-","S","i","g","n","a","t","u","r","e","=","1">>

\* the path-style S3 form of the first object
PathStyleUrl ==
    <<"h","t","t","p","s",":","/","/","s","3",".","u","s","-","w","e","s","t","-","2",".","a","m","a","z","o","n","a","w","s",".","c","o","m","/","p","r","o","d","-","f","i","l","e","s","-","s","e","c","u","r","e","/","w","s","1","/","b","l","k","1","/","a",".","p","n","g","?","X","-","A","m","z","-","S","i","g","n","a","t","u","r","e","=","1">>

\* the first object written with an upper-case host name
UpperCaseHostUrl ==
    <<"h","t","t","p","s",":","/","/","P","R","O","D","-","F","I","L","E","S","-","S","E","C","U","R","E",".","s","3",".","u","s","-","w","e","s","t","-","2",".","a","m","a","z","o","n","a","w","s",".","c","o","m","/","w","s","1","/","b","l","k","1","/","a",".","p","n","g","?","X","-","A","m","z","-","S","i","g","n","a","t","u","r","e","=","1">>

\* an allowed host that is not a Notion host
UnsplashUrl ==
    <<"h","t","t","p","s",":","/","/","i","m","a","g","e","s",".","u","n","s","p","l","a","s","h",".","c","o","m","/","p","h","o","t","o","-","1","?","i","x","i","d","=","1">>

SourceUrls ==
    <<VirtualHostedUrl, ResignedUrl, OtherBlockUrl, PathStyleUrl, UpperCaseHostUrl, UnsplashUrl>>

\* ---------------------------------------------------------------------------
\* cache-key.ts
\* hashString is SHA-256 in hex.  The model keeps what the code relies on: the
\* digest is a fixed-width string of lower-case hex digits and distinct inputs
\* have distinct digests.  The digest of an input is its position among the
\* base URLs the model can derive, written in HashWidth hex digits; a string
\* outside that list gets the one digest after the last.
\* ---------------------------------------------------------------------------
HashWidth == 6

\* the base URLs the proxy route, the purge route and the stable route derive
\* for one source URL
DerivedBaseUrls(parsed, rawUrl) ==
    << BaseUrlOrRaw(parsed, rawUrl),
       purgeBaseUrl(rawUrl),
       IF parsed.kind = "parsed"
       THEN stableCacheBaseUrl(parsed.workspaceId, parsed.blockId, parsed.filename)
       ELSE purgeBaseUrl(rawUrl) >>

DerivedOf(rawUrl) == DerivedBaseUrls(parseNotionUrl(rawUrl), rawUrl)

HashInputs ==
    [i \in 1..(3 * Len(SourceUrls)) |-> DerivedOf(SourceUrls[((i - 1) \div 3) + 1])[((i - 1) % 3) + 1]]

\* the first position of x in seq, Len(seq) + 1 when it does not occur
PositionIn(seq, x) == MinOf({i \in DOMAIN seq : seq[i] = x} \cup {Len(seq) + 1})

LowerHexChar == <<"0","1","2","3","4","5","6","7","8","9","a","b","c","d","e","f">>

RECURSIVE HexString(_, _)
HexString(n, width) ==
    IF width = 0 THEN <<>>
    ELSE HexString(n \div 16, width - 1) \o <<LowerHexChar[(n % 16) + 1]>>

hashString(input) == HexString(PositionIn(HashInputs, input), HashWidth)

\* TransformOptions is a record whose optional fields are present or not:
\* a function on a subset of {"width","height","format","quality","fit"}
Has(options, field) == field \in DOMAIN options

\* a suffix that writes format = original like any other format
generateVariantSuffix_Original(options) ==
    LET parts ==
            (IF Has(options, "width") THEN << <<"w">> \o StringOf(options.width) >> ELSE <<>>)
         \o (IF Has(options, "height") THEN << <<"h">> \o StringOf(options.height) >> ELSE <<>>)
         \o (IF Has(options, "format") THEN << <<"f">> \o options.format >> ELSE <<>>)
         \o (IF Has(options, "quality") THEN << <<"q">> \o StringOf(options.quality) >> ELSE <<>>)
         \o (IF Has(options, "fit") THEN << <<"f","i","t">> \o options.fit >> ELSE <<>>)
    IN  IF Len(parts) > 0 THEN join(parts, <<"_">>) ELSE <<>>

generateVariantSuffix(options) ==
    LET parts ==
            (IF Has(options, "width") THEN << <<"w">> \o StringOf(options.width) >> ELSE <<>>)
         \o (IF Has(options, "height") THEN << <<"h">> \o StringOf(options.height) >> ELSE <<>>)
         \o (IF Has(options, "format") /\ options.format # <<"o","r","i","g","i","n","a","l">>
               THEN << <<"f">> \o options.format >> ELSE <<>>)
         \o (IF Has(options, "quality") THEN << <<"q">> \o StringOf(options.quality) >> ELSE <<>>)
         \o (IF Has(options, "fit") THEN << <<"f","i","t">> \o options.fit >> ELSE <<>>)
    IN  IF Len(parts) > 0 THEN join(parts, <<"_">>) ELSE <<>>

KeyOf(urlHash, variantSuffix) ==
    IF variantSuffix # <<>> THEN urlHash \o <<"/">> \o variantSuffix
    ELSE urlHash \o <<"/","o","r","i","g","i","n","a","l">>

generateCacheKey(baseUrl, transform) ==
    KeyOf(hashString(baseUrl), generateVariantSuffix(transform))

\* a prefix that is the digest alone
generateCachePrefix_Bare(baseUrl) == hashString(baseUrl)

generateCachePrefix(baseUrl) == hashString(baseUrl) \o <<"/">>

\* ---------------------------------------------------------------------------
\* optimizer.ts: option parsing and format negotiation
\* ---------------------------------------------------------------------------
WhiteSpace == {" ", "\t", "\n", "\r"}

\* parseInt(s, 10): leading white space, an optional sign, then the longest
\* run of decimal digits; NaN when that run is empty
parseInt(s) ==
    LET t == Tail1(s, LeadingRun(s, WhiteSpace) + 1)
        signed == t # <<>> /\ t[1] \in {"+", "-"}
        body == IF signed THEN Tail(t) ELSE t
        digits == SubSeq(body, 1, LeadingRun(body, Digits))
    IN  IF digits = <<>> THEN [nan |-> TRUE]
        ELSE [nan |-> FALSE,
              value |-> IF signed /\ t[1] = "-" THEN 0 - NumberOf(digits) ELSE NumberOf(digits)]

InRange(n, lo, hi) == ~n.nan /\ n.value >= lo /\ n.value <= hi

Formats == { <<"w","e","b","p">>, <<"a","v","i","f">>, <<"p","n","g">>, <<"j","p","e","g">> }

Fits == { <<"c","o","v","e","r">>, <<"c","o","n","t","a","i","n">>, <<"f","i","l","l">>, <<"i","n","s","i","d","e">>, <<"o","u","t","s","i","d","e">> }

\* one optional field of the options record
Field(present, name, value) == IF present THEN name :> value ELSE <<>>

\* query: a function from the parameter names present to their raw strings
parseTransformOptions(query) ==
    LET w == IF "w" \in DOMAIN query THEN parseInt(query["w"]) ELSE [nan |-> TRUE]
        h == IF "h" \in DOMAIN query THEN parseInt(query["h"]) ELSE [nan |-> TRUE]
        q == IF "q" \in DOMAIN query THEN parseInt(query["q"]) ELSE [nan |-> TRUE]
        fmt == IF "fmt" \in DOMAIN query THEN toLowerCase(query["fmt"]) ELSE <<>>
        fit == IF "fit" \in DOMAIN query THEN toLowerCase(query["fit"]) ELSE <<>>
    IN  Field(InRange(w, 1, 10000), "width", IF w.nan THEN 0 ELSE w.value)
        @@ Field(InRange(h, 1, 10000), "height", IF h.nan THEN 0 ELSE h.value)
        @@ Field(fmt \in Formats, "format", fmt)
        @@ Field(InRange(q, 1, 100), "quality", IF q.nan THEN 0 ELSE q.value)
        @@ Field(fit \in Fits, "fit", fit)

\* acceptHeader and requestedFormat are the empty string when undefined
negotiateFormat(acceptHeader, requestedFormat) ==
    IF requestedFormat # <<>> /\ requestedFormat # <<"o","r","i","g","i","n","a","l">> THEN requestedFormat
    ELSE IF acceptHeader = <<>> THEN <<"o","r","i","g","i","n","a","l">>
    ELSE IF includes(acceptHeader, <<"i","m","a","g","e","/","a","v","i","f">>) THEN <<"a","v","i","f">>
    ELSE IF includes(acceptHeader, <<"i","m","a","g","e","/","w","e","b","p">>) THEN <<"w","e","b","p">>
    ELSE <<"o","r","i","g","i","n","a","l">>

\* image-pipeline.ts: the options the pipeline keys and optimises with
requestedTransform(query, acceptHeader) ==
    LET transformOptions == parseTransformOptions(query)
        negotiatedFormat ==
            negotiateFormat(acceptHeader,
                            IF Has(transformOptions, "format") THEN transformOptions.format ELSE <<>>)
    IN  IF negotiatedFormat # <<"o","r","i","g","i","n","a","l">>
        THEN ("format" :> negotiatedFormat) @@ transformOptions
        ELSE transformOptions

\* ---------------------------------------------------------------------------
\* config: ALLOWED_DOMAINS, split on commas, trimmed and lower-cased
\* ---------------------------------------------------------------------------
DefaultAllowedDomains ==
    { NOTION_HOSTS[1], NOTION_HOSTS[2], <<"i","m","a","g","e","s",".","u","n","s","p","l","a","s","h",".","c","o","m">> }

(***************************************************************************)
(* lib/fetcher.ts.  A response of the upstream is its status, the headers  *)
(* the fetcher reads (a header is absent, or present with a value) and      *)
(* whether it has a body stream.  A fetch error carries its message as the  *)
(* fixed text and the value interpolated into it.                           *)
(***************************************************************************)
MAX_REDIRECTS == 5

NoHeader == [present |-> FALSE, value |-> <<>>]

Header(value) == [present |-> TRUE, value |-> value]

\* headers.get(name) ?? fallback
HeaderOr(header, fallback) == IF header.present THEN header.value ELSE fallback

isRedirect(status) == status \in {301, 302, 303, 307, 308}

\* response.ok
IsOk(status) == status >= 200 /\ status <= 299

\* String.prototype.trim
RECURSIVE TrailingRun(_, _)
TrailingRun(s, C) ==
    IF s # <<>> /\ s[Len(s)] \in C THEN 1 + TrailingRun(SubSeq(s, 1, Len(s) - 1), C) ELSE 0

trim(s) == SubSeq(s, LeadingRun(s, WhiteSpace) + 1, Len(s) - TrailingRun(s, WhiteSpace))

normalizeContentType(raw) ==
    LET semicolonIndex == IndexOfAny(raw, {";"}, 1)
    IN  toLowerCase(trim(IF semicolonIndex > 0 THEN SubSeq(raw, 1, semicolonIndex - 1) ELSE raw))

\* new URL(location, base) for a base that is an absolute hierarchical URL:
\* a location with a scheme is parsed on its own; "//..." takes the scheme of
\* the base, "/..." its origin, "?..." its path, anything else the directory
\* of its path
HasScheme(location) ==
    LET colon == IndexOfAny(location, {":"}, 1)
    IN  /\ colon > 1
        /\ location[1] \in LowerAlpha \cup UpperAlpha
        /\ \A i \in 1..(colon - 1) : location[i] \in SchemeChars

DirectoryOf(pathname) == SubSeq(pathname, 1, LastIndexOf(pathname, "/"))

ResolveAgainst(location, base) ==
    IF HasScheme(location) THEN ParseUrl(location)
    ELSE IF startsWith(location, <<"/","/">>) THEN ParseUrl(base.protocol \o location)
    ELSE IF startsWith(location, <<"/">>)
    THEN ParseUrl(base.protocol \o <<"/","/">> \o base.host \o location)
    ELSE IF startsWith(location, <<"?">>)
    THEN ParseUrl(base.protocol \o <<"/","/">> \o base.host \o base.pathname \o location)
    ELSE ParseUrl(base.protocol \o <<"/","/">> \o base.host \o DirectoryOf(base.pathname)
                  \o location)

ResolveUrl(location, currentUrl) == ResolveAgainst(location, ParseUrl(currentUrl))

FetchError(status, code, text, detail) ==
    [error |-> TRUE, status |-> status, code |-> code,
     message |-> [text |-> text, detail |-> detail]]

\* the upstream's status passed on as it is
UpstreamError_Verbatim(status) ==
    FetchError(status, "UPSTREAM_ERROR", "Upstream returned HTTP %s", StringOf(status))

\* lines 113-120
UpstreamError(status) ==
    FetchError(IF status = 403 THEN 502 ELSE status, "UPSTREAM_ERROR",
               "Upstream returned HTTP %s", StringOf(status))

\* a catch without the test of line 209: the abort reported as a network error
UpstreamTimeout_Unrecognised(timeoutMs) ==
    FetchError(502, "FETCH_FAILED", "Failed to fetch from upstream: %s",
               <<"T","h","i","s"," ","o","p","e","r","a","t","i","o","n"," ","w","a","s"," ","a","b","o","r","t","e","d">>)

\* lines 209-216
UpstreamTimeout(timeoutMs) ==
    FetchError(504, "UPSTREAM_TIMEOUT", "Upstream fetch timed out after %sms",
               StringOf(timeoutMs))

\* lines 218-225: the message of the network error follows the fixed text
FetchFailed(message) ==
    FetchError(502, "FETCH_FAILED", "Failed to fetch from upstream: %s", message)

FetchResult(totalBytes, contentType) ==
    [error |-> FALSE, data |-> [length |-> totalBytes],
     contentType |-> normalizeContentType(contentType), originalSize |-> totalBytes]

\* options.allowedDomains is optional
NoAllowedDomains == [given |-> FALSE, set |-> {}]

AllowedDomains(set) == [given |-> TRUE, set |-> set]

\* no validation of a redirect target
RedirectValidation_Skipped(redirectUrl, allowedDomains) == Valid

\* lines 91-103: the validation of a redirect target
RedirectValidation(redirectUrl, allowedDomains) ==
    IF allowedDomains.given THEN validateImageUrl(redirectUrl.href, allowedDomains.set)
    ELSE Valid

(***************************************************************************)
(* The stores.  A store is a value; each method is an operator from the    *)
(* store (and the arguments) to the result or to the store afterwards.     *)
(***************************************************************************)

\* ---------------------------------------------------------------------------
\* FilesystemStorage.  files: the regular files under baseDir, a function
\* from <<bucket directory, file name>> to the file's content.  put writes
\* the data file and the metadata file together; the rewrite of the metadata
\* file that get starts after a hit changes only lastAccessedAt and
\* accessCount, which the model does not keep.
\* ---------------------------------------------------------------------------
KeyChars == LowerAlpha \cup UpperAlpha \cup Digits \cup {"-", "_", "/"}

sanitizeKey(key) == [i \in 1..Len(key) |-> IF key[i] \in KeyChars THEN key[i] ELSE "_"]

\* s.substring(0, 2)
Bucket(s) == SubSeq(s, 1, IF Len(s) < 2 THEN Len(s) ELSE 2)

\* a store that names the files by the digest alone
FilePath_DigestOnly(sanitizedKey, ext) ==
    << Bucket(sanitizedKey), split(Tail1(sanitizedKey, 3), "/")[1] \o ext >>

FilePath(sanitizedKey, ext) ==
    << Bucket(sanitizedKey), replaceChars(Tail1(sanitizedKey, 3), {"/"}, "_") \o ext >>

dataPath(sanitizedKey) == FilePath(sanitizedKey, <<".","b","i","n">>)

metaPath(sanitizedKey) == FilePath(sanitizedKey, <<".","j","s","o","n">>)

EmptyFs == [kind |-> "fs", files |-> <<>>]

StorageNull == [hit |-> FALSE]

fsGet(files, key) ==
    IF dataPath(sanitizeKey(key)) \in DOMAIN files /\ metaPath(sanitizeKey(key)) \in DOMAIN files
    THEN [hit |-> TRUE, data |-> files[dataPath(sanitizeKey(key))],
          metadata |-> files[metaPath(sanitizeKey(key))]]
    ELSE StorageNull

fsPut(files, key, data, metadata) ==
    (dataPath(sanitizeKey(key)) :> data) @@ (metaPath(sanitizeKey(key)) :> metadata) @@ files

Without(f, D) == [x \in (DOMAIN f) \ D |-> f[x]]

\* entries of the bucket directory whose name starts with the rest of the prefix
fsPrefixMatches(files, sanitizedPrefix) ==
    {p \in DOMAIN files : p[1] = Bucket(sanitizedPrefix)
                          /\ startsWith(p[2], Tail1(sanitizedPrefix, 3))}

fsDeleteByPrefix(files, prefix) == Without(files, fsPrefixMatches(files, sanitizeKey(prefix)))

fsExists(files, key) == dataPath(sanitizeKey(key)) \in DOMAIN files

\* ---------------------------------------------------------------------------
\* S3Storage.  objects: the bucket, a function from object key to the object.
\* ---------------------------------------------------------------------------
\* key.replace(/\.\./g, '')
RECURSIVE RemoveDotDot(_)
RemoveDotDot(s) ==
    IF Len(s) < 2 THEN s
    ELSE IF s[1] = "." /\ s[2] = "." THEN RemoveDotDot(Tail1(s, 3))
    ELSE <<s[1]>> \o RemoveDotDot(Tail(s))

\* s.replace(/\/+/g, '/')
RECURSIVE CollapseSlashes(_)
CollapseSlashes(s) ==
    IF Len(s) < 2 THEN s
    ELSE IF s[1] = "/" /\ s[2] = "/" THEN CollapseSlashes(Tail(s))
    ELSE <<s[1]>> \o CollapseSlashes(Tail(s))

resolveKey(key) == <<"i","m","a","g","e","s","/">> \o CollapseSlashes(RemoveDotDot(key))

EmptyS3 == [kind |-> "s3", objects |-> <<>>]

s3Get(objects, key) ==
    IF resolveKey(key) \in DOMAIN objects
    THEN [hit |-> TRUE, data |-> objects[resolveKey(key)].data,
          metadata |-> objects[resolveKey(key)].metadata]
    ELSE StorageNull

s3Put(objects, key, data, metadata) ==
    (resolveKey(key) :> [data |-> data, metadata |-> metadata]) @@ objects

s3DeleteByPrefix(objects, prefix) ==
    Without(objects, {k \in DOMAIN objects : startsWith(k, resolveKey(prefix))})

s3Exists(objects, key) == resolveKey(key) \in DOMAIN objects

\* ---------------------------------------------------------------------------
\* StorageBackend: the backend the server was configured with
\* ---------------------------------------------------------------------------
\* a storage.get that finds nothing, whatever the store holds
storageGet_Null(storage, key) == StorageNull

storageGet(storage, key) ==
    IF storage.kind = "fs" THEN fsGet(storage.files, key) ELSE s3Get(storage.objects, key)

storagePut(storage, key, data, metadata) ==
    IF storage.kind = "fs"
    THEN [storage EXCEPT !.files = fsPut(storage.files, key, data, metadata)]
    ELSE [storage EXCEPT !.objects = s3Put(storage.objects, key, data, metadata)]

storageDeleteByPrefix(storage, prefix) ==
    IF storage.kind = "fs"
    THEN [storage EXCEPT !.files = fsDeleteByPrefix(storage.files, prefix)]
    ELSE [storage EXCEPT !.objects = s3DeleteByPrefix(storage.objects, prefix)]

storageExists(storage, key) ==
    IF storage.kind = "fs" THEN fsExists(storage.files, key) ELSE s3Exists(storage.objects, key)

\* ---------------------------------------------------------------------------
\* MemoryCache.  cache: the Map in insertion order, a sequence of
\* [key, entry, expiresAt]; an entry is [data, contentType, cachedAt] and
\* data.length is the size of the image.  The limits are the constructor's
\* options, set low here so that eviction happens.
\* ---------------------------------------------------------------------------
maxEntries == 2

maxTotalBytes == 4

EmptyMemoryCache == [cache |-> <<>>, currentBytes |-> 0]

\* the positions of the Map that hold key (at most one)
Slots(cache, key) == {i \in DOMAIN cache : cache[i].key = key}

RemoveAt(s, i) == SubSeq(s, 1, i - 1) \o SubSeq(s, i + 1, Len(s))

EdgeNull == [hit |-> FALSE]

\* get: the value returned
memGetResult(mc, key, now) ==
    IF \E i \in Slots(mc.cache, key) : now <= mc.cache[i].expiresAt
    THEN [hit |-> TRUE, entry |-> mc.cache[MinOf(Slots(mc.cache, key))].entry]
    ELSE EdgeNull

\* get: the cache afterwards (an expired entry is dropped, a live one moves
\* to the end)
memGetAt(mc, i, now) ==
    IF now > mc.cache[i].expiresAt
    THEN [cache |-> RemoveAt(mc.cache, i),
          currentBytes |-> mc.currentBytes - mc.cache[i].entry.data.length]
    ELSE [mc EXCEPT !.cache = Append(RemoveAt(mc.cache, i), mc.cache[i])]

\* a get that leaves a live entry where it is
memGet_InPlace(mc, key, now) ==
    IF Slots(mc.cache, key) = {} THEN mc
    ELSE IF now > mc.cache[MinOf(Slots(mc.cache, key))].expiresAt
    THEN [cache |-> RemoveAt(mc.cache, MinOf(Slots(mc.cache, key))),
          currentBytes |-> mc.currentBytes
                             - mc.cache[MinOf(Slots(mc.cache, key))].entry.data.length]
    ELSE mc

memGet(mc, key, now) ==
    IF Slots(mc.cache, key) = {} THEN mc ELSE memGetAt(mc, MinOf(Slots(mc.cache, key)), now)

\* a removal that leaves the byte total as it was
memDeleteAt_BytesKept(mc, i) == [mc EXCEPT !.cache = RemoveAt(mc.cache, i)]

memDeleteAt(mc, i) ==
    [cache |-> RemoveAt(mc.cache, i),
     currentBytes |-> mc.currentBytes - mc.cache[i].entry.data.length]

memDelete(mc, key) ==
    IF Slots(mc.cache, key) = {} THEN mc ELSE memDeleteAt(mc, MinOf(Slots(mc.cache, key)))

\* an eviction loop that takes the entry stored last
RECURSIVE memEvict_Newest(_, _)
memEvict_Newest(mc, length) ==
    IF (Len(mc.cache) >= maxEntries \/ mc.currentBytes + length > maxTotalBytes)
       /\ Len(mc.cache) > 0
    THEN memEvict_Newest(memDeleteAt(mc, Len(mc.cache)), length)
    ELSE mc

\* the eviction loop of set
RECURSIVE memEvict(_, _)
memEvict(mc, length) ==
    IF (Len(mc.cache) >= maxEntries \/ mc.currentBytes + length > maxTotalBytes)
       /\ Len(mc.cache) > 0
    THEN memEvict(memDeleteAt(mc, 1), length)
    ELSE mc

memInsert(mc, key, entry, ttlSeconds, now) ==
    IF entry.data.length > maxTotalBytes THEN mc
    ELSE [cache |-> Append(mc.cache, [key |-> key, entry |-> entry,
                                       expiresAt |-> now + ttlSeconds * 1000]),
          currentBytes |-> mc.currentBytes + entry.data.length]

\* a set that stores nothing
memSet_Dropped(mc, key, entry, ttlSeconds, now) == mc

memSet(mc, key, entry, ttlSeconds, now) ==
    memInsert(memEvict(memDelete(mc, key), entry.data.length), key, entry, ttlSeconds, now)

\* the Map iterated in order, every key with the prefix deleted
RECURSIVE memDeleteByPrefix(_, _)
memDeleteByPrefix(mc, prefix) ==
    IF \E i \in DOMAIN mc.cache : startsWith(mc.cache[i].key, prefix)
    THEN memDeleteByPrefix(
             memDeleteAt(mc, MinOf({i \in DOMAIN mc.cache : startsWith(mc.cache[i].key, prefix)})),
             prefix)
    ELSE mc

\* ---------------------------------------------------------------------------
\* RedisCache (routes/cache.ts 105-233).  The value of a RedisCache is the
\* server's database db, a function from redis key to [value, ttl], and the
\* commands sent on the connection and not yet answered, in order; a command
\* is answered with a reply or with an error, and an error leaves db as it
\* is.  A serialized entry is the buffer in its three parts.
\* ---------------------------------------------------------------------------
EmptyRedisCache == [db |-> <<>>, queue |-> <<>>]

keyPrefix == <<"n","i","c","d","n",":">>

\* RedisCache.resolveKey
redisKeyOf(key) == keyPrefix \o key

\* Buffer.from(contentType, 'utf-8').length
ContentTypeBytes(contentType) ==
    IF contentType = "image/png" THEN 9
    ELSE IF contentType = "application/octet-stream" THEN 24
    ELSE 10

serializeEntry(entry) ==
    [contentTypeLength |-> ContentTypeBytes(entry.contentType),
     contentType |-> entry.contentType,
     data |-> entry.data]

RawLength(raw) == 4 + ContentTypeBytes(raw.contentType) + raw.data.length

deserializeEntry(raw, now) ==
    IF RawLength(raw) < 4 THEN EdgeNull
    ELSE IF RawLength(raw) < 4 + raw.contentTypeLength THEN EdgeNull
    ELSE [hit |-> TRUE,
          entry |-> [data |-> raw.data, contentType |-> raw.contentType, cachedAt |-> now]]

\* the commands of the client
getBuffer(redisKey, by) == [op |-> "getBuffer", key |-> redisKey, by |-> by]

setex(redisKey, ttlSeconds, serialized, by) ==
    [op |-> "setex", key |-> redisKey, ttl |-> ttlSeconds, value |-> serialized, by |-> by]

del(keys, by) == [op |-> "del", keys |-> keys, by |-> by]

scan(pattern, by) == [op |-> "scan", pattern |-> pattern, by |-> by]

ping(by) == [op |-> "ping", by |-> by]

redisSend(rc, command) == [rc EXCEPT !.queue = Append(@, command)]

\* the database after the server has executed the command
redisExecute(db, command) ==
    IF command.op = "setex"
    THEN (command.key :> [value |-> command.value, ttl |-> command.ttl]) @@ db
    ELSE IF command.op = "del"
    THEN [k \in (DOMAIN db) \ command.keys |-> db[k]]
    ELSE db

\* the command at the head of the queue is answered
redisAnswered(rc, ok) ==
    [db |-> IF ok THEN redisExecute(rc.db, Head(rc.queue)) ELSE rc.db,
     queue |-> Tail(rc.queue)]

\* a get that returns what the database holds although the command failed
redisGet_Cached(db, redisKey, ok, now) ==
    IF redisKey \in DOMAIN db THEN deserializeEntry(db[redisKey].value, now) ELSE EdgeNull

\* get, lines 146-160: the value returned once getBuffer is answered
redisGet(db, redisKey, ok, now) ==
    IF ~ok THEN EdgeNull
    ELSE IF redisKey \notin DOMAIN db THEN EdgeNull
    ELSE deserializeEntry(db[redisKey].value, now)

\* set, lines 162-171: the command sent
redisSet(rc, key, entry, ttlSeconds, by) ==
    redisSend(rc, setex(redisKeyOf(key), ttlSeconds, serializeEntry(entry), by))

\* deleteByPrefix, lines 179-196: the keys a SCAN with MATCH prefix* reports
redisScan(db, pattern) == {k \in DOMAIN db : startsWith(k, pattern)}

(***************************************************************************)
(* lib/singleflight.ts.  flights is the Map from key to the shared         *)
(* promise; promises holds every promise created, by identity: whether it  *)
(* has settled, its FlightSettled value, and the calls awaiting it in the  *)
(* order their continuations were registered (leader first).               *)
(***************************************************************************)
NoFlights == <<>>

PendingPromise(leader) == [settled |-> FALSE, waiters |-> <<leader>>]

\* a lookup that never finds the registered flight
HasFlight_Blind(fl, key) == key \in {}

\* const existing = this.flights.get(key)
HasFlight(fl, key) == key \in DOMAIN fl

\* this.flights.set(key, safePromise)
FlightsSet(fl, key, id) == (key :> id) @@ fl

\* this.flights.delete(key)
FlightsDelete(fl, key) == [k \in (DOMAIN fl) \ {key} |-> fl[k]]

\* get activeFlights(): this.flights.size
activeFlights(fl) == Cardinality(DOMAIN fl)

\* await existing: one more continuation on the promise
AwaitPromise(ps, id, caller) == [ps EXCEPT ![id].waiters = Append(@, caller)]

\* fn() fulfilled with value, or rejected with error: the shared promise
\* resolves to {ok: true, value} or {ok: false, error}
SettlePromise(ps, id, ok, value) ==
    [ps EXCEPT ![id] = [settled |-> TRUE, ok |-> ok, value |-> value, waiters |-> @.waiters]]

\* the continuation at the head of the queue has run
PopWaiter(ps, id) == [ps EXCEPT ![id].waiters = Tail(@)]

\* what do() gives its caller once the promise has settled
FlightOutcome(p, coalesced) ==
    IF p.ok THEN [kind |-> "returned", value |-> p.value, coalesced |-> coalesced]
    ELSE [kind |-> "threw", error |-> p.value]

(***************************************************************************)
(* The routes and lib/image-pipeline.ts, as operators: what a route        *)
(* decides before the pipeline runs, the responses, and the outcome of the *)
(* leader's closure.  An image is a record with the length of its bytes;   *)
(* an undefined originalSize is the empty sequence, a defined one a         *)
(* sequence of one number.                                                  *)
(***************************************************************************)

\* a response that reports a miss whatever the tier
sendImageResponse_Miss(data, contentType, cacheTier, originalSize, cacheTtlSeconds) ==
    [status |-> 200,
     contentType |-> contentType,
     contentLength |-> data.length,
     data |-> data,
     sMaxAge |-> cacheTtlSeconds,
     xCache |-> "MISS",
     xCacheTier |-> cacheTier,
     xOptimizedSize |-> StringOf(data.length),
     xOriginalSize |-> IF originalSize = <<>> THEN <<>> ELSE <<StringOf(originalSize[1])>>]

\* lib/response.ts: the headers and the body sent
sendImageResponse(data, contentType, cacheTier, originalSize, cacheTtlSeconds) ==
    [status |-> 200,
     contentType |-> contentType,
     contentLength |-> data.length,
     data |-> data,
     sMaxAge |-> cacheTtlSeconds,
     xCache |-> IF cacheTier = "ORIGIN" THEN "MISS" ELSE "HIT",
     xCacheTier |-> cacheTier,
     xOptimizedSize |-> StringOf(data.length),
     xOriginalSize |-> IF originalSize = <<>> THEN <<>> ELSE <<StringOf(originalSize[1])>>]

\* the message of an error body: a fixed text and the value interpolated
\* into it
Message(text) == [text |-> text, detail |-> <<>>]

\* server.ts 110: the message of the error handler for a status of 500 and
\* above
GenericMessage == Message("An internal server error occurred")

\* reply.status(status).send({error: {status, code, message, requestId}})
sendError(status, code, message, requestId) ==
    [status |-> status, code |-> code, message |-> message, requestId |-> requestId]

\* a route that answers by itself
Reject(status, code, message, requestId) ==
    [reject |-> TRUE, response |-> sendError(status, code, message, requestId)]

\* a route that calls runImagePipeline(cacheBaseUrl, ..., options)
RunPipeline(cacheBaseUrl, upstreamUrl, upstreamErrorMode) ==
    [reject |-> FALSE, cacheBaseUrl |-> cacheBaseUrl, upstreamUrl |-> upstreamUrl,
     upstreamErrorMode |-> upstreamErrorMode]

\* GET /api/v1/proxy.  An exception of parseNotionUrl reaches the server's
\* error handler.
proxyParsed(rawUrl, parsed, requestId) ==
    IF parsed.kind = "throw" THEN Reject(500, "INTERNAL_ERROR", GenericMessage, requestId)
    ELSE RunPipeline(BaseUrlOrRaw(parsed, rawUrl), rawUrl, "relay")

\* a route that hands every URL to the pipeline
proxyValidated_Unchecked(rawUrl, validation, requestId) ==
    proxyParsed(rawUrl, parseNotionUrl(rawUrl), requestId)

proxyValidated(rawUrl, validation, requestId) ==
    IF ~validation.valid
    THEN Reject(403, validation.errorCode, Message("validation.error"), requestId)
    ELSE proxyParsed(rawUrl, parseNotionUrl(rawUrl), requestId)

proxyRoutes(req, requestId) ==
    IF req.url = <<>>
    THEN Reject(400, "MISSING_URL", Message("The url query parameter is required"), requestId)
    ELSE proxyValidated(req.url, validateImageUrl(req.url, DefaultAllowedDomains), requestId)

\* GET /img/:workspaceId/:blockId/:filename
imageRoutes(req, requestId) ==
    IF req.workspaceId = <<>> \/ req.blockId = <<>> \/ req.filename = <<>>
    THEN Reject(400, "MISSING_PARAMS",
                Message("workspaceId, blockId, and filename are required"), requestId)
    ELSE IF containsPathTraversal(req.workspaceId) \/ containsPathTraversal(req.blockId)
            \/ containsPathTraversal(req.filename)
    THEN Reject(400, "INVALID_PARAMS", Message("Invalid characters in URL parameters"),
                requestId)
    ELSE RunPipeline(stableCacheBaseUrl(req.workspaceId, req.blockId, req.filename),
                     stableCacheBaseUrl(req.workspaceId, req.blockId, req.filename),
                     "cache-miss")

RouteOf(req, requestId) ==
    IF req.route = "proxy" THEN proxyRoutes(req, requestId) ELSE imageRoutes(req, requestId)

\* optimizer.ts
isEmptyTransform(options) ==
    /\ ~Has(options, "width")
    /\ ~Has(options, "height")
    /\ (~Has(options, "format") \/ options.format = <<"o","r","i","g","i","n","a","l">>)
    /\ ~Has(options, "quality")
    /\ ~Has(options, "fit")

formatToContentType(format) ==
    IF format = <<"w","e","b","p">> THEN "image/webp"
    ELSE IF format = <<"a","v","i","f">> THEN "image/avif"
    ELSE IF format = <<"p","n","g">> THEN "image/png"
    ELSE IF format = <<"j","p","e","g">> THEN "image/jpeg"
    ELSE "application/octet-stream"

\* optimizeImage when sharp succeeds: without a transform the input bytes and
\* the probed format; otherwise re-encoded bytes (shorter here) in the
\* requested format, or in the input's format when none is requested
optimizeImage(input, inputFormat, options) ==
    IF isEmptyTransform(options)
    THEN [data |-> input, contentType |-> formatToContentType(inputFormat)]
    ELSE [data |-> [length |-> input.length - 1],
          contentType |-> formatToContentType(
              IF Has(options, "format") /\ options.format # <<"o","r","i","g","i","n","a","l">>
              THEN options.format ELSE inputFormat)]

\* a closure that has an optimised image whether sharp throws or not
OutputOf_Optimized(fetchResult, transform, optimizeOk) ==
    optimizeImage(fetchResult.data, <<"p","n","g">>, transform)

\* lines 132-145: the optimised image, or the fetched one when sharp throws
OutputOf(fetchResult, transform, optimizeOk) ==
    IF optimizeOk
    THEN optimizeImage(fetchResult.data, <<"p","n","g">>, transform)
    ELSE [data |-> fetchResult.data, contentType |-> fetchResult.contentType]

\* lines 184-189 and 127-129: what the leader's closure returns
PipelineResult(output, fetchResult) ==
    [kind |-> "success", data |-> output.data, contentType |-> output.contentType,
     originalSize |-> fetchResult.originalSize]

PipelineError(fetchResult) == [kind |-> "error", fetchError |-> fetchResult]

\* a caller that relays every error, whatever its mode
ResponseOf_Verbatim(outcome, coalesced, upstreamErrorMode, cacheTtl, requestId) ==
    IF outcome.kind = "error"
    THEN sendError(outcome.fetchError.status, outcome.fetchError.code,
                   outcome.fetchError.message, requestId)
    ELSE sendImageResponse(outcome.data, outcome.contentType,
                           IF coalesced THEN "L2_EDGE" ELSE "ORIGIN",
                           IF coalesced THEN <<>> ELSE <<outcome.originalSize>>,
                           cacheTtl)

\* lines 198-241: the response of a caller of originFlight.do
ResponseOf(outcome, coalesced, upstreamErrorMode, cacheTtl, requestId) ==
    IF outcome.kind = "error"
    THEN IF upstreamErrorMode = "cache-miss" /\ outcome.fetchError.status \in {403, 404, 502}
         THEN sendError(404, "IMAGE_NOT_CACHED", Message("This image is not yet cached."),
                        requestId)
         ELSE sendError(outcome.fetchError.status, outcome.fetchError.code,
                        outcome.fetchError.message, requestId)
    ELSE sendImageResponse(outcome.data, outcome.contentType,
                           IF coalesced THEN "L2_EDGE" ELSE "ORIGIN",
                           IF coalesced THEN <<>> ELSE <<outcome.originalSize>>,
                           cacheTtl)

(***************************************************************************)
(* State.                                                                  *)
(*   call, ret : a function of the service applied to drawn inputs: the    *)
(*               call record and the results of its successive             *)
(*               applications; for a store, the last operation applied     *)
(*   storage   : the persistent store (L3), a FilesystemStorage or an      *)
(*               S3Storage                                                 *)
(*   edgeCache : the edge cache (L2), a MemoryCache or a RedisCache        *)
(*   now       : Date.now(), in milliseconds                               *)
(*   flights   : the Map of the Singleflight                               *)
(*   promises  : the shared promises created so far                        *)
(*   callers   : the calls made directly on the Singleflight or on the     *)
(*               RedisCache                                                *)
(*   requests  : the HTTP requests received, in the order of their arrival  *)
(*   puts      : the writes to L3 started and not yet completed              *)
(*   upstream  : the GETs sent to the upstream, in order                    *)
(***************************************************************************)
VARIABLES call, ret, storage, edgeCache, now, flights, promises, callers,
          requests, puts, upstream

NoCall == [fn |-> "none"]

pureVars == <<call, ret>>

storeVars == <<storage, edgeCache, now>>

flightVars == <<flights, promises>>

NoFlightsYet == flights = NoFlights /\ promises = <<>>

pipelineVars == <<requests, puts, upstream>>

NoRequestsYet == requests = <<>> /\ puts = {} /\ upstream = <<>>

\* a freshly started server: nothing cached
StoresEmpty ==
    /\ storage \in {EmptyFs, EmptyS3}
    /\ edgeCache = EmptyMemoryCache
    /\ now = 0

\* ---------------------------------------------------------------------------
\* Inputs of validateImageUrl: every combination of scheme, userinfo and host
\* below, some strings that are not URLs, and URLs at the length limit.
\* ---------------------------------------------------------------------------
ValidatorSchemes == { <<"h","t","t","p","s",":","/","/">>, <<"h","t","t","p",":","/","/">>, <<"H","T","T","P","S",":","/","/">> }

ValidatorUserinfos == { <<>>, <<"u","s","e","r",":","p","w","@">>, <<"u","s","e","r","@">> }

PrivateHosts ==
    { <<"1","2","7",".","0",".","0",".","1">>, <<"1","0",".","0",".","0",".","1">>, <<"l","o","c","a","l","h","o","s","t">>, <<"d","b",".","i","n","t","e","r","n","a","l">>, <<"[",":",":","1","]">> }

ValidatorHosts ==
    PrivateHosts \cup
    { <<"i","m","a","g","e","s",".","u","n","s","p","l","a","s","h",".","c","o","m">>, <<"I","m","a","g","e","s",".","U","n","s","p","l","a","s","h",".","C","O","M">>, <<"e","v","i","l",".","e","x","a","m","p","l","e",".","c","o","m">>,
      <<"i","m","a","g","e","s",".","u","n","s","p","l","a","s","h",".","c","o","m",".","e","v","i","l",".","c","o","m">>, <<"c","d","n",".","i","m","a","g","e","s",".","u","n","s","p","l","a","s","h",".","c","o","m">>, <<"8",".","8",".","8",".","8">>,
      <<"f","c","d","n",".","i","o">>, <<"1","7","2",".","3","2",".","0",".","1">>, <<"1","0",".","0",".","0",".","0","1">> }

UrlTail == <<"/","a",".","p","n","g","?","x","=","1">>

Pad(k) == [i \in 1..k |-> "a"]

\* an https URL of an allowed host that is exactly n characters long
UrlOfLength(n) ==
    LET head == <<"h","t","t","p","s",":","/","/","i","m","a","g","e","s",".","u","n","s","p","l","a","s","h",".","c","o","m","/">>
    IN  head \o Pad(n - Len(head))

ValidatorUrls ==
    { s \o u \o h \o UrlTail : s \in ValidatorSchemes, u \in ValidatorUserinfos, h \in ValidatorHosts }
    \cup { <<>>, <<"n","o","t"," ","a"," ","u","r","l">>, <<"i","m","a","g","e","s",".","u","n","s","p","l","a","s","h",".","c","o","m","/","a",".","p","n","g">>,
           UrlOfLength(MAX_URL_LENGTH), UrlOfLength(MAX_URL_LENGTH + 1) }

ValidatorAllowLists ==
    { DefaultAllowedDomains,
      DefaultAllowedDomains \cup ValidatorHosts,
      {} }

MaxApplications == 2

InitValidate ==
    /\ call \in [fn : {"validateImageUrl"}, rawUrl : ValidatorUrls, allowedDomains : ValidatorAllowLists]
    /\ ret = <<>>
    /\ storage = EmptyFs
    /\ edgeCache = EmptyMemoryCache
    /\ now = 0
    /\ NoFlightsYet
    /\ callers = <<>>
    /\ NoRequestsYet

\* one call of validateImageUrl on the drawn input
Validate ==
    /\ call.fn = "validateImageUrl"
    /\ Len(ret) < MaxApplications
    /\ ret' = Append(ret, validateImageUrl(call.rawUrl, call.allowedDomains))
    /\ UNCHANGED <<call, storeVars, flightVars, callers, pipelineVars>>

\* ---------------------------------------------------------------------------
\* The stores driven directly: entries of two base URLs in two variants are
\* stored, and all variants of one base URL are deleted by prefix.
\* ---------------------------------------------------------------------------
CACHE_TTL_SECONDS == 1

StoreBaseUrls == {proxyCacheBaseUrl(VirtualHostedUrl), proxyCacheBaseUrl(OtherBlockUrl)}

StoreVariants == { <<>>, ("width" :> 800) }

ImageOfLength(n) == [length |-> n]

PngMetadata == [contentType |-> "image/png"]

InitStore ==
    /\ call = NoCall /\ ret = <<>> /\ StoresEmpty /\ NoFlightsYet /\ callers = <<>>
    /\ NoRequestsYet

\* storage.put(generateCacheKey(u, o), data, metadata)
StoragePut(u, o) ==
    /\ storage' = storagePut(storage, generateCacheKey(u, o), ImageOfLength(1), PngMetadata)
    /\ call' = [fn |-> "storage.put", baseUrl |-> u]
    /\ UNCHANGED <<ret, edgeCache, now, flightVars, callers, pipelineVars>>

\* storage.deleteByPrefix(generateCachePrefix(u))
StorageDeleteByPrefix(u) ==
    /\ storage' = storageDeleteByPrefix(storage, generateCachePrefix(u))
    /\ call' = [fn |-> "storage.deleteByPrefix", baseUrl |-> u, before |-> storage]
    /\ UNCHANGED <<ret, edgeCache, now, flightVars, callers, pipelineVars>>

\* edgeCache.set(generateCacheKey(u, o), entry, ttl)
EdgeSet(u, o) ==
    /\ edgeCache' = memSet(edgeCache, generateCacheKey(u, o),
                           [data |-> ImageOfLength(1), contentType |-> "image/png", cachedAt |-> now],
                           CACHE_TTL_SECONDS, now)
    /\ call' = [fn |-> "edgeCache.set", baseUrl |-> u]
    /\ UNCHANGED <<ret, storage, now, flightVars, callers, pipelineVars>>

\* edgeCache.deleteByPrefix(generateCachePrefix(u))
EdgeDeleteByPrefix(u) ==
    /\ edgeCache' = memDeleteByPrefix(edgeCache, generateCachePrefix(u))
    /\ call' = [fn |-> "edgeCache.deleteByPrefix", baseUrl |-> u, before |-> edgeCache]
    /\ UNCHANGED <<ret, storage, now, flightVars, callers, pipelineVars>>

\* ---------------------------------------------------------------------------
\* generateCacheKey and generateCachePrefix applied to drawn inputs: two base
\* URLs and two option records, each directive absent or present with a value
\* in range.  ret holds the keys and the prefix computed.
\* ---------------------------------------------------------------------------
KeyOptions ==
    { Field(w # 0, "width", w) @@ Field(h # 0, "height", h) @@ Field(f # <<>>, "format", f)
        @@ Field(q # 0, "quality", q) @@ Field(fit # <<>>, "fit", fit) :
          w \in {0, 1, 10}, h \in {0, 10},
          f \in {<<>>, <<"o","r","i","g","i","n","a","l">>, <<"w","e","b","p">>},
          q \in {0, 1}, fit \in {<<>>, <<"c","o","v","e","r">>} }

InitKey ==
    /\ call \in [fn : {"generateCacheKey"}, baseUrl : StoreBaseUrls, otherUrl : StoreBaseUrls,
                 transform : KeyOptions, other : KeyOptions]
    /\ ret = <<>>
    /\ storage = EmptyFs
    /\ edgeCache = EmptyMemoryCache
    /\ now = 0
    /\ NoFlightsYet
    /\ callers = <<>>
    /\ NoRequestsYet

\* the keys of the drawn base URL under both option records, the key of the
\* other base URL, and the prefix of the drawn base URL
GenerateKeys ==
    /\ call.fn = "generateCacheKey"
    /\ ret = <<>>
    /\ ret' = [key |-> generateCacheKey(call.baseUrl, call.transform),
               keyOfOther |-> generateCacheKey(call.baseUrl, call.other),
               keyOfOtherUrl |-> generateCacheKey(call.otherUrl, call.transform),
               prefix |-> generateCachePrefix(call.baseUrl)]
    /\ UNCHANGED <<call, storeVars, flightVars, callers, pipelineVars>>

\* ---------------------------------------------------------------------------
\* parseNotionUrl as the proxy route calls it: URLs of the four Notion hosts,
\* of another allowed host and of a host written in upper case, with paths of
\* too few segments, with well-formed escapes, and with a "%" that no two hex
\* digits follow or that starts a broken UTF-8 sequence; and strings that are
\* no URLs.  The allow-list is the default one or one that admits all four
\* Notion hosts.
\* ---------------------------------------------------------------------------
ParseHosts ==
    { NOTION_HOSTS[1], NOTION_HOSTS[2], NOTION_HOSTS[3], NOTION_HOSTS[4],
      <<"i","m","a","g","e","s",".","u","n","s","p","l","a","s","h",".","c","o","m">>,
      <<"P","R","O","D","-","F","I","L","E","S","-","S","E","C","U","R","E",".","S","3",".","u","s","-","w","e","s","t","-","2",".","a","m","a","z","o","n","a","w","s",".","c","o","m">> }

ParsePaths ==
    { <<"/","w","s","1","/","b","l","k","1","/","a",".","p","n","g">>,
      <<"/","o","n","l","y","-","o","n","e">>,
      <<"/">>,
      <<"/","w","o","r","k","%","2","0","s","p","a","c","e","/","b","l","o","c","k","%","2","F","i","d","/","i","m","a","g","e","%","2","0","n","a","m","e",".","p","n","g">>,
      <<"/","w","s","1","/","b","l","k","1","/","1","0","0","%",".","p","n","g">>,
      <<"/","w","s","1","/","%","z","z","/","a",".","p","n","g">>,
      <<"/","%","E","0","%","A","4","%","A","/","b","l","k","1","/","a",".","p","n","g">>,
      <<"/","w","s","1","/","b","l","k","1","/","%","/","a",".","p","n","g">>,
      <<"/","p","r","o","d","-","f","i","l","e","s","-","s","e","c","u","r","e","/","w","s","1","/","b","l","k","1","/","a","%","2",".","p","n","g">>,
      <<"/","f","/","f","/","w","s","1","/","b","l","k","1","/","a",".","p","n","g">>,
      <<"/","s","3","/","p","r","o","d","-","f","i","l","e","s","-","s","e","c","u","r","e","%","2","F","w","s","1","%","2","F","b","l","k","1","%","2","F","a",".","p","n","g","/","s","i","z","e","/","w","=","1","0","0">>,
      <<"/","s","3","/","w","s","1","%","2","F","b","l","k","1","%","2","F","a","%",".","p","n","g","/","s","i","z","e">>,
      <<"/","w","s","1","/","%","2","0","/","%","2","F">> }

ParseQueries == { <<>>, <<"?","X","-","A","m","z","-","S","i","g","n","a","t","u","r","e","=","1","%">> }

ParseUrls ==
    { <<"h","t","t","p","s",":","/","/">> \o h \o p \o q : h \in ParseHosts, p \in ParsePaths, q \in ParseQueries }
    \cup { <<>>, <<"n","o","t","-","a","-","u","r","l">>, <<"h","t","t","p","s",":","/","/">> }

ParseAllowLists ==
    { DefaultAllowedDomains, DefaultAllowedDomains \cup {NOTION_HOSTS[3], NOTION_HOSTS[4]} }

InitParse ==
    /\ call \in [fn : {"parseNotionUrl"}, rawUrl : ParseUrls, allowedDomains : ParseAllowLists]
    /\ ret = <<>>
    /\ storage = EmptyFs
    /\ edgeCache = EmptyMemoryCache
    /\ now = 0
    /\ NoFlightsYet
    /\ callers = <<>>
    /\ NoRequestsYet

\* parseNotionUrl on the drawn string, and the proxy route on a request that
\* carries it (lines 33-64 of the route): what the route does next
ParseNotion ==
    /\ call.fn = "parseNotionUrl"
    /\ ret = <<>>
    /\ ret' = <<[parsed |-> parseNotionUrl(call.rawUrl),
                 route |-> proxyValidated(call.rawUrl,
                                          validateImageUrl(call.rawUrl, call.allowedDomains),
                                          1)]>>
    /\ UNCHANGED <<call, storeVars, flightVars, callers, pipelineVars>>

\* ---------------------------------------------------------------------------
\* parseIPv4 and isPrivateHost on dotted-decimal strings: every combination
\* of the octets below, which lie on and next to the edges of the ranges
\* isPrivateIPv4 tests, and strings that are not strict dotted-decimal
\* addresses (a leading zero, an octet above 255, too few or too many parts).
\* ---------------------------------------------------------------------------
FirstOctets ==
    {0, 1, 9, 10, 11, 100, 126, 127, 128, 169, 172, 191, 192, 193, 198, 203, 223, 224, 239, 240, 255}

SecondOctets == {0, 1, 15, 16, 17, 18, 19, 20, 31, 32, 51, 63, 64, 127, 128, 168, 254, 255}

ThirdOctets == {0, 1, 2, 3, 99, 100, 101, 113, 255}

FourthOctets == {0, 255}

DottedQuad(a, b, c, d) ==
    StringOf(a) \o <<".">> \o StringOf(b) \o <<".">> \o StringOf(c) \o <<".">> \o StringOf(d)

NotStrictQuads ==
    { <<"0","1","0",".","0",".","0",".","1">>,
      <<"1","0",".","0","0",".","0",".","1">>,
      <<"1","2","7",".","0",".","0",".","0","1">>,
      <<"1","9","2",".","1","6","8",".","0","1",".","1">>,
      <<"0","0",".","0",".","0",".","0">>,
      <<"0","1","2","7",".","0",".","0",".","1">>,
      <<"2","5","6",".","0",".","0",".","1">>,
      <<"1","0",".","0",".","0",".","2","5","6">>,
      <<"9","9","9",".","1",".","1",".","1">>,
      <<"1","0",".","0",".","0">>,
      <<"1","0",".","0",".","0",".","0",".","1">>,
      <<"1","2","7",".","1">>,
      <<"1",".","2",".","3",".","4",".">>,
      <<"1","0",".",".","0",".","1">> }

IPv4Hosts ==
    { DottedQuad(a, b, c, d) :
          a \in FirstOctets, b \in SecondOctets, c \in ThirdOctets, d \in FourthOctets }
    \cup NotStrictQuads

InitIPv4 ==
    /\ call \in [fn : {"isPrivateHost"}, hostname : IPv4Hosts]
    /\ ret = <<>>
    /\ storage = EmptyFs
    /\ edgeCache = EmptyMemoryCache
    /\ now = 0
    /\ NoFlightsYet
    /\ callers = <<>>
    /\ NoRequestsYet

\* parseIPv4 and isPrivateHost on the drawn string
CheckPrivateHost ==
    /\ call.fn = "isPrivateHost"
    /\ ret = <<>>
    /\ ret' = <<[ip |-> parseIPv4(call.hostname), private |-> isPrivateHost(call.hostname)]>>
    /\ UNCHANGED <<call, storeVars, flightVars, callers, pipelineVars>>

\* ---------------------------------------------------------------------------
\* The MemoryCache driven directly: set, get and delete on three keys, with
\* entries of one, three and five bytes, while time passes.  call holds the
\* last call with the cache before it and what it returned; ret holds the
\* keys ever stored or read with success, the one used last at the end.
\* ---------------------------------------------------------------------------
MemoryKeys == { <<"a">>, <<"b">>, <<"c">> }

MemorySizes == {1, 3, 5}

InitMemory ==
    /\ call = NoCall /\ ret = <<>> /\ StoresEmpty /\ storage = EmptyFs
    /\ NoFlightsYet /\ callers = <<>>
    /\ NoRequestsYet

\* key becomes the key used last
Used(uses, key) == Append(SelectSeq(uses, LAMBDA k : k # key), key)

\* edgeCache.set(key, entry, ttl)
MemorySet(key, length) ==
    /\ edgeCache' = memSet(edgeCache, key,
                           [data |-> ImageOfLength(length), contentType |-> "image/png",
                            cachedAt |-> now],
                           CACHE_TTL_SECONDS, now)
    /\ call' = [fn |-> "MemoryCache.set", key |-> key, length |-> length,
                before |-> edgeCache, at |-> now]
    /\ ret' = IF length > maxTotalBytes THEN ret ELSE Used(ret, key)
    /\ UNCHANGED <<storage, now, flightVars, callers, pipelineVars>>

\* edgeCache.get(key)
MemoryGet(key) ==
    /\ edgeCache' = memGet(edgeCache, key, now)
    /\ call' = [fn |-> "MemoryCache.get", key |-> key, before |-> edgeCache, at |-> now,
                result |-> memGetResult(edgeCache, key, now)]
    /\ ret' = IF memGetResult(edgeCache, key, now).hit THEN Used(ret, key) ELSE ret
    /\ UNCHANGED <<storage, now, flightVars, callers, pipelineVars>>

\* edgeCache.delete(key)
MemoryDelete(key) ==
    /\ edgeCache' = memDelete(edgeCache, key)
    /\ call' = [fn |-> "MemoryCache.delete", key |-> key, before |-> edgeCache, at |-> now]
    /\ UNCHANGED <<ret, storage, now, flightVars, callers, pipelineVars>>

\* ---------------------------------------------------------------------------
\* The MemoryCache driven directly with all four operations, on keys that
\* share prefixes as the keys of the variants of one image do.
\* ---------------------------------------------------------------------------
PrefixedKeys == { <<"a","/","1">>, <<"a","/","2">>, <<"b","/","1">> }

MemoryPrefixes == { <<"a","/">>, <<"b","/">> }

\* edgeCache.deleteByPrefix(prefix)
MemoryDeleteByPrefix(prefix) ==
    /\ edgeCache' = memDeleteByPrefix(edgeCache, prefix)
    /\ call' = [fn |-> "MemoryCache.deleteByPrefix", prefix |-> prefix, before |-> edgeCache,
                at |-> now]
    /\ UNCHANGED <<ret, storage, now, flightVars, callers, pipelineVars>>

\* ---------------------------------------------------------------------------
\* Singleflight.do called directly: MaxCallers calls, each with its own fn,
\* on two keys.  A caller record holds the key, the role do() took, the
\* promise awaited, how often the caller's own fn was invoked, and what do()
\* gave back.  The value (or error) a fn produces is tagged with its caller.
\* ---------------------------------------------------------------------------
MaxCallers == 4

FlightKeys == {generateCacheKey(u, <<>>) : u \in StoreBaseUrls}

IdleCaller == [pc |-> "idle", ran |-> 0]

\* callers are numbered in the order of their calls
NextToCall(c) == callers[c].pc = "idle" /\ (IF c = 1 THEN TRUE ELSE callers[c - 1].pc # "idle")

InitFlight ==
    /\ call = NoCall /\ ret = <<>>
    /\ storage = EmptyFs /\ edgeCache = EmptyMemoryCache /\ now = 0
    /\ NoFlightsYet
    /\ callers = [c \in 1..MaxCallers |-> IdleCaller]
    /\ NoRequestsYet

\* do(key, fn) up to its first await, with a flight registered: follower
DoAsFollower(c, key) ==
    /\ NextToCall(c)
    /\ HasFlight(flights, key)
    /\ promises' = AwaitPromise(promises, flights[key], c)
    /\ callers' = [callers EXCEPT ![c] = [pc |-> "awaiting", key |-> key, role |-> "follower",
                                           promise |-> flights[key], ran |-> 0]]
    /\ UNCHANGED <<flights, pureVars, storeVars, pipelineVars>>

\* do(key, fn) up to its first await, with no flight registered: fn() is
\* invoked, its promise wrapped and registered, and the leader awaits it
DoAsLeader(c, key) ==
    /\ NextToCall(c)
    /\ ~HasFlight(flights, key)
    /\ promises' = Append(promises, PendingPromise(c))
    /\ flights' = FlightsSet(flights, key, Len(promises) + 1)
    /\ callers' = [callers EXCEPT ![c] = [pc |-> "awaiting", key |-> key, role |-> "leader",
                                           promise |-> Len(promises) + 1, ran |-> 1]]
    /\ UNCHANGED <<pureVars, storeVars, pipelineVars>>

\* the leader's fn fulfils (ok) or rejects
FnSettles(c, ok) ==
    /\ callers[c].pc = "awaiting"
    /\ callers[c].role = "leader"
    /\ ~promises[callers[c].promise].settled
    /\ promises' = SettlePromise(promises, callers[c].promise, ok,
                                 [by |-> c, what |-> IF ok THEN "value" ELSE "error"])
    /\ UNCHANGED <<flights, callers, pureVars, storeVars, pipelineVars>>

\* a continuation that deletes the key whatever the role of its call
Resume_EveryCallDeletes(c) ==
    /\ callers[c].pc = "awaiting"
    /\ promises[callers[c].promise].settled
    /\ Head(promises[callers[c].promise].waiters) = c
    /\ promises' = PopWaiter(promises, callers[c].promise)
    /\ flights' = FlightsDelete(flights, callers[c].key)
    /\ callers' = [callers EXCEPT ![c] =
                      [pc |-> "done", key |-> @.key, role |-> @.role, promise |-> @.promise,
                       ran |-> @.ran,
                       outcome |-> FlightOutcome(promises[@.promise], @.role = "follower")]]
    /\ UNCHANGED <<pureVars, storeVars, pipelineVars>>

\* the continuation of a call after its await, in registration order; the
\* leader's runs the finally block
Resume(c) ==
    /\ callers[c].pc = "awaiting"
    /\ promises[callers[c].promise].settled
    /\ Head(promises[callers[c].promise].waiters) = c
    /\ promises' = PopWaiter(promises, callers[c].promise)
    /\ flights' = IF callers[c].role = "leader" THEN FlightsDelete(flights, callers[c].key)
                  ELSE flights
    /\ callers' = [callers EXCEPT ![c] =
                      [pc |-> "done", key |-> @.key, role |-> @.role, promise |-> @.promise,
                       ran |-> @.ran,
                       outcome |-> FlightOutcome(promises[@.promise], @.role = "follower")]]
    /\ UNCHANGED <<pureVars, storeVars, pipelineVars>>

\* ---------------------------------------------------------------------------
\* The server: requests arrive one after the other and are served
\* concurrently.  A step is what the event loop runs without interruption:
\* from the completion of an I/O operation (or the arrival of a request) to
\* the next await of an I/O operation, all continuations of promises that are
\* already settled included.  MemoryCache's methods have synchronous bodies,
\* so an L2 operation takes effect in the step that calls it.
\*
\* A request record: req, the request as received; at, after, landed: the
\* time of arrival, the requests answered by then, and the requests whose
\* write to L3 had completed by then; pc: "l3" (reading L3), "fetching" (the
\* leader's closure awaits the upstream), "awaiting" (a follower awaits the
\* shared promise), "purging" (storage.deleteByPrefix runs), "purged" (it has
\* taken effect, its promise not yet observed), "done"; put: the state of
\* the write to L3 the request started.
\* ---------------------------------------------------------------------------
MaxGets == 2

MaxPurges == 1

\* time advances in steps of TickMs up to MaxNow, while no request is being
\* served: serving a request takes less than the time an entry lives
TickMs == 1001

MaxNow == 1001

ProxyUrls == {VirtualHostedUrl, ResignedUrl, PathStyleUrl, UpperCaseHostUrl}

PurgeUrls == {VirtualHostedUrl, UpperCaseHostUrl}

\* the transform parameters and the Accept header of a request: none, or a
\* width from a browser that takes WebP
PlainVariant == [query |-> <<>>, accept |-> <<>>]

WebpVariant ==
    [query |-> ("w" :> <<"8","0","0">>),
     accept |-> <<"i","m","a","g","e","/","w","e","b","p",",","*","/","*">>]

ProxyRequest(u, v) == [route |-> "proxy", url |-> u, query |-> v.query, accept |-> v.accept]

\* every URL of the object as it is, and the first one resized as well
ProxyRequests ==
    {ProxyRequest(u, PlainVariant) : u \in ProxyUrls}
    \cup {ProxyRequest(VirtualHostedUrl, WebpVariant)}

StableRequests ==
    { [route |-> "stable", workspaceId |-> <<"w","s","1">>, blockId |-> <<"b","l","k","1">>,
       filename |-> <<"a",".","p","n","g">>, query |-> v.query, accept |-> v.accept] :
          v \in {PlainVariant} }

PurgeRequests == [route : {"purge"}, url : PurgeUrls]

\* what the upstream can answer to a GET: the image, or a fetch error
FetchedImage ==
    [error |-> FALSE, data |-> ImageOfLength(3), contentType |-> "image/png", originalSize |-> 3]

FetchErrors == { UpstreamError(403) }

FetchResults == {FetchedImage} \cup FetchErrors

Pending == [status |-> 0]

Responded == {i \in DOMAIN requests : requests[i].response # Pending}

Landed == {i \in DOMAIN requests : requests[i].put = "written"}

InFlight == {i \in DOMAIN requests : requests[i].pc # "done"}

Purges == {i \in DOMAIN requests : requests[i].req.route = "purge"}

Gets == (DOMAIN requests) \ Purges

Received(req, pc, plan, transform, cacheKey, response) ==
    [req |-> req, at |-> now, after |-> Responded, landed |-> Landed, pc |-> pc,
     cacheKey |-> cacheKey, transform |-> transform,
     upstreamUrl |-> IF plan.reject THEN <<>> ELSE plan.upstreamUrl,
     upstreamErrorMode |-> IF plan.reject THEN "none" ELSE plan.upstreamErrorMode,
     put |-> "none", response |-> response]

\* the server as configured by default (STORAGE_BACKEND=fs, no REDIS_URL),
\* freshly started
Init ==
    /\ call = NoCall /\ ret = <<>> /\ callers = <<>>
    /\ storage = EmptyFs /\ edgeCache = EmptyMemoryCache /\ now = 0
    /\ NoFlightsYet
    /\ NoRequestsYet

\* the server with STORAGE_BACKEND=s3 and no REDIS_URL, freshly started
InitS3 ==
    /\ call = NoCall /\ ret = <<>> /\ callers = <<>>
    /\ storage = EmptyS3 /\ edgeCache = EmptyMemoryCache /\ now = 0
    /\ NoFlightsYet
    /\ NoRequestsYet

\* runImagePipeline, lines 73-84: the L2 probe; a hit is the response, a miss
\* starts storage.get
ProbeL2(req, plan, transform, cacheKey, l2Hit) ==
    /\ edgeCache' = memGet(edgeCache, cacheKey, now)
    /\ requests' = Append(requests,
           IF l2Hit.hit
           THEN Received(req, "done", plan, transform, cacheKey,
                         sendImageResponse(l2Hit.entry.data, l2Hit.entry.contentType,
                                           "L2_EDGE", <<>>, CACHE_TTL_SECONDS))
           ELSE Received(req, "l3", plan, transform, cacheKey, Pending))

\* runImagePipeline, lines 60-71
EnterPipeline(req, plan, transform, cacheKey) ==
    ProbeL2(req, plan, transform, cacheKey, memGetResult(edgeCache, cacheKey, now))

EnterRoute(req, plan, transform) ==
    IF plan.reject
    THEN /\ requests' = Append(requests, Received(req, "done", plan, <<>>, <<>>, plan.response))
         /\ UNCHANGED edgeCache
    ELSE EnterPipeline(req, plan, transform, generateCacheKey(plan.cacheBaseUrl, transform))

\* a GET of the proxy route or of the stable-path route arrives
Get(req) ==
    /\ Cardinality(Gets) < MaxGets
    /\ EnterRoute(req, RouteOf(req, Len(requests) + 1),
                  requestedTransform(req.query, req.accept))
    /\ UNCHANGED <<call, ret, callers, storage, now, flightVars, puts, upstream>>

Answer(rs, i, response) == [rs EXCEPT ![i].pc = "done", ![i].response = response]

\* lines 85-112: an L3 hit back-fills L2 and is the response
ServeFromL3(i, r, l3Hit) ==
    /\ edgeCache' = memSet(edgeCache, r.cacheKey,
                           [data |-> l3Hit.data, contentType |-> l3Hit.metadata.contentType,
                            cachedAt |-> now],
                           CACHE_TTL_SECONDS, now)
    /\ requests' = Answer(requests, i,
                          sendImageResponse(l3Hit.data, l3Hit.metadata.contentType,
                                            "L3_PERSISTENT", <<>>, CACHE_TTL_SECONDS))
    /\ UNCHANGED <<flightVars, upstream>>

\* originFlight.do with a flight registered: the request awaits its promise
JoinFlight(i, r) ==
    /\ promises' = AwaitPromise(promises, flights[r.cacheKey], i)
    /\ requests' = [requests EXCEPT ![i].pc = "awaiting"]
    /\ UNCHANGED <<flights, edgeCache, upstream>>

\* originFlight.do with none: the closure runs up to the await of
\* fetchUpstreamImage, which sends the GET; its promise is registered
LeadFlight(i, r) ==
    /\ promises' = Append(promises, PendingPromise(i))
    /\ flights' = FlightsSet(flights, r.cacheKey, Len(promises) + 1)
    /\ upstream' = Append(upstream, [url |-> r.upstreamUrl, cacheKey |-> r.cacheKey, by |-> i])
    /\ requests' = [requests EXCEPT ![i].pc = "fetching"]
    /\ UNCHANGED edgeCache

AfterL3(i, r, l3Hit) ==
    IF l3Hit.hit THEN ServeFromL3(i, r, l3Hit)
    ELSE IF HasFlight(flights, r.cacheKey) THEN JoinFlight(i, r)
    ELSE LeadFlight(i, r)

\* storage.get of request i completes
L3Read(i) ==
    /\ requests[i].pc = "l3"
    /\ AfterL3(i, requests[i], storageGet(storage, requests[i].cacheKey))
    /\ UNCHANGED <<call, ret, callers, storage, now, puts>>

\* a promise whose followers are never resumed: the leader alone answers
Release_LeaderOnly(rs, waiters, leader, outcome) ==
    [j \in DOMAIN rs |->
        IF j = leader
        THEN [rs[j] EXCEPT !.pc = "done",
                           !.put = IF outcome.kind = "success" THEN "pending" ELSE @,
                           !.response = ResponseOf(outcome, FALSE, rs[j].upstreamErrorMode,
                                                   CACHE_TTL_SECONDS, j)]
        ELSE rs[j]]

\* the callers of do() resume in the order they awaited the promise, the
\* leader first; each sends its own response
Release(rs, waiters, leader, outcome) ==
    [j \in DOMAIN rs |->
        IF \E w \in DOMAIN waiters : waiters[w] = j
        THEN [rs[j] EXCEPT !.pc = "done",
                           !.put = IF j = leader /\ outcome.kind = "success" THEN "pending" ELSE @,
                           !.response = ResponseOf(outcome, j # leader, rs[j].upstreamErrorMode,
                                                   CACHE_TTL_SECONDS, j)]
        ELSE rs[j]]

\* lines 147-190 and singleflight.ts 31-43: the closure's writes, the shared
\* promise settling, the flight removed
Publish(i, r, id, outcome) ==
    /\ promises' = [SettlePromise(promises, id, TRUE, outcome) EXCEPT ![id].waiters = <<>>]
    /\ flights' = FlightsDelete(flights, r.cacheKey)
    /\ requests' = Release(requests, promises[id].waiters, i, outcome)
    /\ puts' = IF outcome.kind = "success"
               THEN puts \cup {[by |-> i, cacheKey |-> r.cacheKey, data |-> outcome.data,
                                metadata |-> [contentType |-> outcome.contentType]]}
               ELSE puts
    /\ edgeCache' = IF outcome.kind = "success"
                    THEN memSet(edgeCache, r.cacheKey,
                                [data |-> outcome.data, contentType |-> outcome.contentType,
                                 cachedAt |-> now],
                                CACHE_TTL_SECONDS, now)
                    ELSE edgeCache

\* fetchUpstreamImage of leader i completes with fetchResult, and sharp
\* succeeds or throws
FetchCompletes(i, fetchResult, optimizeOk) ==
    /\ requests[i].pc = "fetching"
    /\ Publish(i, requests[i], flights[requests[i].cacheKey],
               IF fetchResult.error THEN PipelineError(fetchResult)
               ELSE PipelineResult(OutputOf(fetchResult, requests[i].transform, optimizeOk),
                                   fetchResult))
    /\ UNCHANGED <<call, ret, callers, storage, now, upstream>>

\* a write to L3 completes
PutCompletes(p) ==
    /\ p \in puts
    /\ storage' = storagePut(storage, p.cacheKey, p.data, p.metadata)
    /\ puts' = puts \ {p}
    /\ requests' = [requests EXCEPT ![p.by].put = "written"]
    /\ UNCHANGED <<call, ret, callers, edgeCache, now, flightVars, upstream>>

\* a failed write to L3 that turns the response into an error
PutFails_Surfaced(p) ==
    /\ p \in puts
    /\ puts' = puts \ {p}
    /\ requests' = [requests EXCEPT ![p.by].put = "failed",
                                    ![p.by].response = sendError(500, "INTERNAL_ERROR",
                                                                 GenericMessage, p.by)]
    /\ UNCHANGED <<call, ret, callers, storage, edgeCache, now, flightVars, upstream>>

\* a write to L3 fails: the rejection is logged
PutFails(p) ==
    /\ p \in puts
    /\ puts' = puts \ {p}
    /\ requests' = [requests EXCEPT ![p.by].put = "failed"]
    /\ UNCHANGED <<call, ret, callers, storage, edgeCache, now, flightVars, upstream>>

\* DELETE /api/v1/cache?url= arrives: storage.deleteByPrefix is called
Purge(req) ==
    /\ Cardinality(Purges) < MaxPurges
    /\ requests' = Append(requests,
           [req |-> req, at |-> now, after |-> Responded, landed |-> Landed, pc |-> "purging",
            prefix |-> generateCachePrefix(purgeBaseUrl(req.url)), put |-> "none",
            response |-> Pending])
    /\ UNCHANGED <<call, ret, callers, storeVars, flightVars, puts, upstream>>

\* storage.deleteByPrefix takes effect
PurgeStorage(i) ==
    /\ requests[i].pc = "purging"
    /\ storage' = storageDeleteByPrefix(storage, requests[i].prefix)
    /\ requests' = [requests EXCEPT ![i].pc = "purged"]
    /\ UNCHANGED <<call, ret, callers, edgeCache, now, flightVars, puts, upstream>>

\* the route resumes: edgeCache.deleteByPrefix, then 200
PurgeEdge(i) ==
    /\ requests[i].pc = "purged"
    /\ edgeCache' = memDeleteByPrefix(edgeCache, requests[i].prefix)
    /\ requests' = Answer(requests, i, [status |-> 200, purgedBy |-> "url"])
    /\ UNCHANGED <<call, ret, callers, storage, now, flightVars, puts, upstream>>

\* a page_id, as the query string of DELETE /api/v1/cache carries it
PageId == <<"p","g","1">>

\* DELETE /api/v1/cache with or without url and page_id; an absent parameter
\* is the empty string, which the handler's tests take for absent as well
CacheDeleteRequests == [route : {"purge"}, url : {<<>>, VirtualHostedUrl}, pageId : {<<>>, PageId}]

\* a DELETE the handler answers without awaiting anything
AnsweredAtOnce(req, response) ==
    [req |-> req, at |-> now, after |-> Responded, landed |-> Landed, pc |-> "done",
     prefix |-> <<>>, put |-> "none", response |-> response]

\* the handler of DELETE /api/v1/cache: 400 without url and page_id, the
\* purge by prefix with a url, and the answer to a page_id alone
CacheDelete(req) ==
    IF req.url = <<>> /\ req.pageId = <<>>
    THEN /\ Cardinality(Purges) < MaxPurges
         /\ requests' = Append(requests,
                AnsweredAtOnce(req, sendError(400, "MISSING_PARAMS",
                    Message("Either \"url\" or \"page_id\" query parameter is required"),
                    Len(requests) + 1)))
         /\ UNCHANGED <<call, ret, callers, storeVars, flightVars, puts, upstream>>
    ELSE IF req.url # <<>>
    THEN Purge(req)
    ELSE /\ Cardinality(Purges) < MaxPurges
         /\ requests' = Append(requests,
                AnsweredAtOnce(req, [status |-> 200, purgedBy |-> "page_id",
                                     target |-> req.pageId]))
         /\ UNCHANGED <<call, ret, callers, storeVars, flightVars, puts, upstream>>

\* time passes
Tick ==
    /\ now < MaxNow
    /\ InFlight = {}
    /\ now' = now + TickMs
    /\ UNCHANGED <<call, ret, callers, storage, edgeCache, flightVars, pipelineVars>>

\* ---------------------------------------------------------------------------
\* fetchUpstreamImage called directly, against an upstream that answers each
\* GET as it likes.  call holds the arguments and the locals of the call:
\* phase ("fetch": awaiting the response to the GET just sent, "read":
\* awaiting reader.read(), "done": returned), hop, currentUrl, the response
\* received last and how many were received, contentType and totalBytes;
\* upstream holds the GETs sent, ret the value returned.
\* ---------------------------------------------------------------------------
MaxSizeBytes == 3

MaxChunk == 2

FetchUrls == {VirtualHostedUrl}

RedirectedUrl == <<"h","t","t","p","s",":","/","/","p","r","o","d","-","f","i","l","e","s","-","s","e","c","u","r","e",".","s","3",".","u","s","-","w","e","s","t","-","2",".","a","m","a","z","o","n","a","w","s",".","c","o","m","/","w","s","1","/","b","l","k","1","/","b",".","p","n","g">>

\* Location headers: absent, empty, an allowed absolute URL, a path on the
\* current host, a loopback address, a private address on the current scheme,
\* a host that is not allowed, plain http, and a URL without a host
LocationHeaders ==
    { NoHeader, Header(<<>>), Header(RedirectedUrl),
      Header(<<"/","w","s","1","/","b","l","k","1","/","c",".","p","n","g">>),
      Header(<<"h","t","t","p","s",":","/","/","1","2","7",".","0",".","0",".","1","/">>),
      Header(<<"/","/","1","0",".","0",".","0",".","1","/","a",".","p","n","g">>),
      Header(<<"h","t","t","p","s",":","/","/","e","v","i","l",".","e","x","a","m","p","l","e","/","a",".","p","n","g">>),
      Header(<<"h","t","t","p",":","/","/","i","m","a","g","e","s",".","u","n","s","p","l","a","s","h",".","c","o","m","/","a",".","p","n","g">>),
      Header(<<"h","t","t","p","s",":","/","/">>) }

ContentTypeHeaders ==
    { NoHeader, Header(<<"i","m","a","g","e","/","p","n","g">>), Header(<<"i","m","a","g","e","/","P","N","G",";"," ","c","h","a","r","s","e","t","=","b","i","n","a","r","y">>),
      Header(<<"t","e","x","t","/","h","t","m","l">>) }

ContentLengthHeaders ==
    { NoHeader, Header(StringOf(MaxSizeBytes - 1)), Header(StringOf(MaxSizeBytes)),
      Header(StringOf(MaxSizeBytes + 1)), Header(<<"a","b","c">>) }

UpstreamResponse(status, location, contentType, contentLength, body) ==
    [status |-> status, location |-> location, contentType |-> contentType,
     contentLength |-> contentLength, body |-> body]

RedirectResponses ==
    { UpstreamResponse(s, l, NoHeader, NoHeader, FALSE) :
          s \in {301, 302, 303, 307, 308}, l \in LocationHeaders }

FailureResponses ==
    { UpstreamResponse(s, NoHeader, NoHeader, NoHeader, FALSE) : s \in {304, 403, 404, 500} }

OkResponses ==
    { UpstreamResponse(s[1], NoHeader, s[2], s[3], s[4]) :
          s \in {200, 204} \X ContentTypeHeaders \X ContentLengthHeaders \X BOOLEAN }

UpstreamResponses == RedirectResponses \cup FailureResponses \cup OkResponses

NoResponse == UpstreamResponse(0, NoHeader, NoHeader, NoHeader, FALSE)

\* err.message of a network error
NetworkErrorMessages == { <<"c","o","n","n","e","c","t"," ","E","C","O","N","N","R","E","F","U","S","E","D"," ","1","0",".","0",".","0",".","5",":","4","4","3">> }

InitFetch ==
    /\ call = NoCall /\ ret = <<>> /\ callers = <<>>
    /\ storage = EmptyFs /\ edgeCache = EmptyMemoryCache /\ now = 0
    /\ NoFlightsYet
    /\ NoRequestsYet

\* lines 49-64: the call arms the timer (line 53) and runs to the await of the
\* first fetch()
CallFetch(url) ==
    /\ call = NoCall
    /\ call' = [fn |-> "fetchUpstreamImage", url |-> url, timeoutMs |-> 15000,
                maxSizeBytes |-> MaxSizeBytes,
                allowedDomains |-> AllowedDomains(DefaultAllowedDomains),
                phase |-> "fetch", hop |-> 0, currentUrl |-> url,
                response |-> NoResponse, answered |-> 0,
                contentType |-> <<>>, totalBytes |-> 0, timer |-> "armed"]
    /\ upstream' = Append(upstream, [url |-> url, hop |-> 0])
    /\ UNCHANGED <<ret, callers, storeVars, flightVars, requests, puts>>

\* a return inside try or catch, followed by the finally of lines 226-228:
\* clearTimeout cancels the timer unless it has fired
Return(c, outcome) ==
    /\ call' = [c EXCEPT !.phase = "done",
                         !.timer = IF @ = "armed" THEN "cleared" ELSE @]
    /\ ret' = Append(ret, outcome)
    /\ UNCHANGED upstream

\* the next turn of the loop: fetch(currentUrl)
SendGet(c, url, hop) ==
    /\ call' = [c EXCEPT !.currentUrl = url, !.hop = hop]
    /\ upstream' = Append(upstream, [url |-> url, hop |-> hop])
    /\ UNCHANGED ret

\* the loop condition, hop <= MAX_REDIRECTS
WithinRedirects_Unbounded(hop) == TRUE

WithinRedirects(hop) == hop <= MAX_REDIRECTS

\* lines 105-106 and 200-206: continue, and the loop running out
NextHop(c, redirectUrl) ==
    IF WithinRedirects(c.hop + 1) THEN SendGet(c, redirectUrl.href, c.hop + 1)
    ELSE Return(c, FetchError(502, "TOO_MANY_REDIRECTS",
                              "Upstream exceeded maximum of %s redirects",
                              StringOf(MAX_REDIRECTS)))

\* lines 91-103
Validated(c, redirectUrl, validation) ==
    IF ~validation.valid
    THEN Return(c, FetchError(403, "REDIRECT_BLOCKED", "Redirect to %s blocked: %s",
                              redirectUrl.hostname))
    ELSE NextHop(c, redirectUrl)

\* lines 79-89
Resolved(c, redirectUrl) ==
    IF ~redirectUrl.ok
    THEN Return(c, FetchError(502, "INVALID_REDIRECT",
                              "Upstream returned an invalid redirect Location", <<>>))
    ELSE Validated(c, redirectUrl, RedirectValidation(redirectUrl, c.allowedDomains))

\* lines 67-107
OnRedirect(c, response) ==
    IF ~response.location.present \/ response.location.value = <<>>
    THEN Return(c, FetchError(502, "INVALID_REDIRECT",
                              "Upstream returned %s without a Location header",
                              StringOf(response.status)))
    ELSE Resolved(c, ResolveUrl(response.location.value, c.currentUrl))

\* the size test of lines 138 and 168
ExceedsLimit_Never(size, maxSizeBytes) == FALSE

ExceedsLimit(size, maxSizeBytes) == size > maxSizeBytes

\* lines 133-159: declaredSize is NaN when the header is not a number, and NaN
\* exceeds nothing
OnImage(c, response, contentType, declaredSize) ==
    IF ~declaredSize.nan /\ ExceedsLimit(declaredSize.value, c.maxSizeBytes)
    THEN Return(c, FetchError(413, "IMAGE_TOO_LARGE",
                              "Image size (%s bytes) exceeds maximum of %s bytes",
                              StringOf(declaredSize.value)))
    ELSE IF ~response.body
    THEN Return(c, FetchError(502, "EMPTY_RESPONSE", "Upstream returned empty response body",
                              <<>>))
    ELSE /\ call' = [c EXCEPT !.phase = "read", !.contentType = contentType, !.totalBytes = 0]
         /\ UNCHANGED <<ret, upstream>>

\* lines 113-131
OnFinal(c, response, contentType) ==
    IF ~IsOk(response.status) THEN Return(c, UpstreamError(response.status))
    ELSE IF ~startsWith(contentType, <<"i","m","a","g","e","/">>)
    THEN Return(c, FetchError(400, "INVALID_CONTENT_TYPE",
                              "Upstream returned non-image Content-Type: %s", contentType))
    ELSE OnImage(c, response, contentType, parseInt(HeaderOr(response.contentLength, <<"0">>)))

\* the response to the GET sent last arrives
Respond(response) ==
    /\ call # NoCall /\ call.fn = "fetchUpstreamImage" /\ call.phase = "fetch"
    /\ IF isRedirect(response.status)
       THEN OnRedirect([call EXCEPT !.response = response, !.answered = @ + 1], response)
       ELSE OnFinal([call EXCEPT !.response = response, !.answered = @ + 1], response,
                    HeaderOr(response.contentType, <<>>))
    /\ UNCHANGED <<callers, storeVars, flightVars, requests, puts>>

\* lines 161-179: reader.read() delivers a chunk of n bytes
ReadChunk(n) ==
    /\ call # NoCall /\ call.fn = "fetchUpstreamImage" /\ call.phase = "read"
    /\ IF ExceedsLimit(call.totalBytes + n, call.maxSizeBytes)
       THEN Return([call EXCEPT !.totalBytes = @ + n],
                   FetchError(413, "IMAGE_TOO_LARGE",
                              "Image exceeded maximum size of %s bytes during transfer",
                              StringOf(call.maxSizeBytes)))
       ELSE /\ call' = [call EXCEPT !.totalBytes = @ + n]
            /\ UNCHANGED <<ret, upstream>>
    /\ UNCHANGED <<callers, storeVars, flightVars, requests, puts>>

\* lines 163 and 181-197: reader.read() reports the end of the body
ReadDone ==
    /\ call # NoCall /\ call.fn = "fetchUpstreamImage" /\ call.phase = "read"
    /\ IF call.totalBytes = 0
       THEN Return(call, FetchError(502, "EMPTY_BODY", "Upstream returned zero bytes", <<>>))
       ELSE Return(call, FetchResult(call.totalBytes, call.contentType))
    /\ UNCHANGED <<callers, storeVars, flightVars, requests, puts>>

\* lines 53 and 207-216: the timer aborts the call while it awaits
Abort ==
    /\ call # NoCall /\ call.fn = "fetchUpstreamImage" /\ call.phase \in {"fetch", "read"}
    /\ call.timer = "armed"
    /\ Return([call EXCEPT !.timer = "fired"], UpstreamTimeout(call.timeoutMs))
    /\ UNCHANGED <<callers, storeVars, flightVars, requests, puts>>

\* lines 218-225: fetch() or reader.read() rejects
NetworkError(message) ==
    /\ call # NoCall /\ call.fn = "fetchUpstreamImage" /\ call.phase \in {"fetch", "read"}
    /\ Return(call, FetchFailed(message))
    /\ UNCHANGED <<callers, storeVars, flightVars, requests, puts>>

\* ---------------------------------------------------------------------------
\* The server with REDIS_URL set (server.ts 161-176: the edge cache is a
\* RedisCache), on a machine whose I/O can fail: a command of the Redis
\* connection, a read or a write of the persistent store, the upstream fetch
\* and sharp.  edgeCache holds the RedisCache; callers holds the calls made
\* directly on it.  A request records, beyond the fields above, l2: how its
\* probe of L2 ended ("none", "pending", "hit", "miss", "failed"), l3: "none",
\* "probed" once storage.get was called, "failed" when it threw, l2set: the
\* state of the edgeCache.set it started ("none", "pending", "stored",
\* "failed"), fetched: the result its closure got from fetchUpstreamImage (a
\* sequence of at most one) and optimized: whether sharp succeeded on it.  A
\* direct call records its method, the value its promise resolved with and
\* whether its last command failed.  A
\* command sent for request i carries by = i, one sent for the c-th direct
\* call by = -c.  MaxGets bounds the requests and the direct calls together.
\* now stands still: a request is served within the life of an entry.
\* ---------------------------------------------------------------------------
MaxMaintenance == 1

CredentialsUrl ==
    <<"h","t","t","p","s",":","/","/","u","s","e","r",":","p","w","@">>
    \o SubSeq(VirtualHostedUrl, 9, Len(VirtualHostedUrl))

ForeignUrl == <<"h","t","t","p","s",":","/","/","e","v","i","l",".","e","x","a","m","p","l","e","/">>

\* the object by its URL, plain and resized, and by its stable path; a URL
\* with credentials that names the same object, a URL of a foreign host and
\* no URL at all
RedisRequests ==
    {ProxyRequest(u, PlainVariant) : u \in {VirtualHostedUrl, CredentialsUrl, ForeignUrl, <<>>}}
    \cup {ProxyRequest(VirtualHostedUrl, WebpVariant)}
    \cup StableRequests

\* what fetchUpstreamImage can return to the pipeline
RedisFetchResults ==
    { FetchedImage,
      UpstreamError(403), UpstreamError(404), UpstreamError(500),
      FetchError(403, "REDIRECT_BLOCKED", "Redirect to %s blocked: %s",
                 <<"e","v","i","l",".","e","x","a","m","p","l","e">>),
      FetchError(413, "IMAGE_TOO_LARGE",
                 "Image exceeded maximum size of %s bytes during transfer",
                 StringOf(MaxSizeBytes)),
      UpstreamTimeout(15000) } \cup { FetchFailed(m) : m \in NetworkErrorMessages }

\* what readFile can reject with
ReadErrors ==
    { [code |-> "ENOENT", statusCode |-> <<>>,
       message |-> [text |-> "ENOENT: no such file or directory, open %s", detail |-> <<>>]],
      [code |-> "EACCES", statusCode |-> <<>>,
       message |-> [text |-> "EACCES: permission denied, open %s", detail |-> <<>>]] }

RedisMethods == {"delete", "deleteByPrefix", "healthCheck"}

ReceivedRedis(req, pc, plan, transform, cacheKey, response) ==
    [req |-> req, at |-> now, after |-> Responded, landed |-> Landed, pc |-> pc,
     cacheKey |-> cacheKey, transform |-> transform,
     upstreamUrl |-> IF plan.reject THEN <<>> ELSE plan.upstreamUrl,
     upstreamErrorMode |-> IF plan.reject THEN "none" ELSE plan.upstreamErrorMode,
     put |-> "none", response |-> response,
     l2 |-> IF pc = "l2" THEN "pending" ELSE "none", l3 |-> "none", l2set |-> "none",
     fetched |-> <<>>, optimized |-> FALSE]

InitRedis ==
    /\ call = NoCall /\ ret = <<>> /\ callers = <<>>
    /\ storage = EmptyFs /\ edgeCache = EmptyRedisCache /\ now = 0
    /\ NoFlightsYet
    /\ NoRequestsYet

\* the server started anew over the cache directory of an earlier run, which
\* holds the object as fetched: L3 has the entry, L2 and the coordinator are
\* empty
InitRestarted ==
    /\ call = NoCall /\ ret = <<>> /\ callers = <<>>
    /\ storage = storagePut(EmptyFs, generateCacheKey(proxyCacheBaseUrl(VirtualHostedUrl), <<>>),
                            FetchedImage.data, [contentType |-> FetchedImage.contentType])
    /\ edgeCache = EmptyRedisCache /\ now = 0
    /\ NoFlightsYet
    /\ NoRequestsYet

\* server.ts 99-114: an exception of a handler
errorHandler(error, requestId) ==
    sendError(IF error.statusCode = <<>> THEN 500 ELSE error.statusCode[1],
              IF error.statusCode = <<429>> THEN "RATE_LIMIT_EXCEEDED" ELSE "INTERNAL_ERROR",
              IF error.statusCode = <<>> \/ error.statusCode[1] >= 500
              THEN GenericMessage ELSE error.message,
              requestId)

\* runImagePipeline, lines 73-75: edgeCache.get sends GETBUFFER
EnterPipelineRedis(req, plan, transform, cacheKey) ==
    /\ requests' = Append(requests, ReceivedRedis(req, "l2", plan, transform, cacheKey, Pending))
    /\ edgeCache' = redisSend(edgeCache,
                              getBuffer(redisKeyOf(cacheKey), Len(requests) + 1))

EnterRouteRedis(req, plan, transform) ==
    IF plan.reject
    THEN /\ requests' = Append(requests,
                               ReceivedRedis(req, "done", plan, <<>>, <<>>, plan.response))
         /\ UNCHANGED edgeCache
    ELSE EnterPipelineRedis(req, plan, transform,
                            generateCacheKey(plan.cacheBaseUrl, transform))

\* a GET of the proxy route or of the stable-path route arrives
GetRedis(req) ==
    /\ Cardinality(Gets) + Len(callers) < MaxGets
    /\ EnterRouteRedis(req, RouteOf(req, Len(requests) + 1),
                       requestedTransform(req.query, req.accept))
    /\ UNCHANGED <<call, ret, callers, storage, now, flightVars, puts, upstream>>

\* lines 75-84: a hit is the response, anything else calls storage.get
AfterL2(i, l2Hit, ok) ==
    requests' =
        IF l2Hit.hit
        THEN [Answer(requests, i,
                     sendImageResponse(l2Hit.entry.data, l2Hit.entry.contentType,
                                       "L2_EDGE", <<>>, CACHE_TTL_SECONDS))
                 EXCEPT ![i].l2 = IF ok THEN "hit" ELSE "failed"]
        ELSE [requests EXCEPT ![i].pc = "l3", ![i].l3 = "probed",
                              ![i].l2 = IF ok THEN "miss" ELSE "failed"]

\* the GETBUFFER of a request is answered, with the value or with an error
L2GetAnswered(ok) ==
    /\ edgeCache.queue # <<>>
    /\ Head(edgeCache.queue).op = "getBuffer"
    /\ AfterL2(Head(edgeCache.queue).by,
               redisGet(edgeCache.db, Head(edgeCache.queue).key, ok, now), ok)
    /\ edgeCache' = redisAnswered(edgeCache, ok)
    /\ UNCHANGED <<call, ret, callers, storage, now, flightVars, puts, upstream>>

\* the SETEX of a request is answered: executed, or failed and swallowed
L2SetAnswered(ok) ==
    /\ edgeCache.queue # <<>>
    /\ Head(edgeCache.queue).op = "setex"
    /\ requests' = [requests EXCEPT ![Head(edgeCache.queue).by].l2set =
                                        IF ok THEN "stored" ELSE "failed"]
    /\ edgeCache' = redisAnswered(edgeCache, ok)
    /\ UNCHANGED <<call, ret, callers, storage, now, flightVars, puts, upstream>>

\* an L3 hit answered without the back-fill of L2
ServeFromL3Redis_NoBackfill(i, r, l3Hit) ==
    /\ requests' = Answer(requests, i,
                          sendImageResponse(l3Hit.data, l3Hit.metadata.contentType,
                                            "L3_PERSISTENT", <<>>, CACHE_TTL_SECONDS))
    /\ UNCHANGED <<edgeCache, flightVars, upstream>>

\* lines 85-112: an L3 hit sends the back-fill of L2 and is the response
ServeFromL3Redis(i, r, l3Hit) ==
    /\ edgeCache' = redisSet(edgeCache, r.cacheKey,
                             [data |-> l3Hit.data, contentType |-> l3Hit.metadata.contentType,
                              cachedAt |-> now],
                             CACHE_TTL_SECONDS, i)
    /\ requests' = [Answer(requests, i,
                           sendImageResponse(l3Hit.data, l3Hit.metadata.contentType,
                                             "L3_PERSISTENT", <<>>, CACHE_TTL_SECONDS))
                       EXCEPT ![i].l2set = "pending"]
    /\ UNCHANGED <<flightVars, upstream>>

AfterL3Redis(i, r, l3Hit) ==
    IF l3Hit.hit THEN ServeFromL3Redis(i, r, l3Hit)
    ELSE IF HasFlight(flights, r.cacheKey) THEN JoinFlight(i, r)
    ELSE LeadFlight(i, r)

\* storage.get of request i completes
L3ReadRedis(i) ==
    /\ requests[i].pc = "l3"
    /\ AfterL3Redis(i, requests[i], storageGet(storage, requests[i].cacheKey))
    /\ UNCHANGED <<call, ret, callers, storage, now, puts>>

\* FilesystemStorage.get, lines 60-66: the exception of the route's handler
\* answers the request
L3Throws(i, err) ==
    /\ requests' = [Answer(requests, i, errorHandler(err, i)) EXCEPT ![i].l3 = "failed"]
    /\ UNCHANGED <<edgeCache, flightVars, upstream>>

\* readFile of request i rejects: not-found is a miss, anything else is
\* thrown
L3ReadFails(i, err) ==
    /\ requests[i].pc = "l3"
    /\ IF err.code = "ENOENT" THEN AfterL3Redis(i, requests[i], [hit |-> FALSE])
       ELSE L3Throws(i, err)
    /\ UNCHANGED <<call, ret, callers, storage, now, puts>>

\* a closure that stores what it has, the body of an error too
PublishRedis_CachesErrors(i, r, id, fetchResult, optimizeOk, outcome) ==
    /\ promises' = [SettlePromise(promises, id, TRUE, outcome) EXCEPT ![id].waiters = <<>>]
    /\ flights' = FlightsDelete(flights, r.cacheKey)
    /\ requests' = [Release(requests, promises[id].waiters, i, outcome) EXCEPT
                       ![i].fetched = <<fetchResult>>,
                       ![i].optimized = optimizeOk,
                       ![i].l2set = "pending"]
    /\ puts' = puts \cup {[by |-> i, cacheKey |-> r.cacheKey,
                           data |-> IF outcome.kind = "success" THEN outcome.data
                                    ELSE ImageOfLength(0),
                           metadata |-> [contentType |->
                                             IF outcome.kind = "success" THEN outcome.contentType
                                             ELSE "application/json"]]}
    /\ edgeCache' = redisSet(edgeCache, r.cacheKey,
                             [data |-> IF outcome.kind = "success" THEN outcome.data
                                       ELSE ImageOfLength(0),
                              contentType |-> IF outcome.kind = "success" THEN outcome.contentType
                                              ELSE "application/json",
                              cachedAt |-> now],
                             CACHE_TTL_SECONDS, i)

\* lines 147-190: the closure's writes started, the shared promise settled,
\* the flight removed, the callers answered
PublishRedis(i, r, id, fetchResult, optimizeOk, outcome) ==
    /\ promises' = [SettlePromise(promises, id, TRUE, outcome) EXCEPT ![id].waiters = <<>>]
    /\ flights' = FlightsDelete(flights, r.cacheKey)
    /\ requests' = [Release(requests, promises[id].waiters, i, outcome) EXCEPT
                       ![i].fetched = <<fetchResult>>,
                       ![i].optimized = optimizeOk,
                       ![i].l2set = IF outcome.kind = "success" THEN "pending" ELSE @]
    /\ puts' = IF outcome.kind = "success"
               THEN puts \cup {[by |-> i, cacheKey |-> r.cacheKey, data |-> outcome.data,
                                metadata |-> [contentType |-> outcome.contentType]]}
               ELSE puts
    /\ edgeCache' = IF outcome.kind = "success"
                    THEN redisSet(edgeCache, r.cacheKey,
                                  [data |-> outcome.data, contentType |-> outcome.contentType,
                                   cachedAt |-> now],
                                  CACHE_TTL_SECONDS, i)
                    ELSE edgeCache

\* fetchUpstreamImage of leader i completes with fetchResult, and sharp
\* succeeds or throws
FetchCompletesRedis(i, fetchResult, optimizeOk) ==
    /\ requests[i].pc = "fetching"
    /\ PublishRedis(i, requests[i], flights[requests[i].cacheKey], fetchResult,
                    ~fetchResult.error /\ optimizeOk,
                    IF fetchResult.error THEN PipelineError(fetchResult)
                    ELSE PipelineResult(OutputOf(fetchResult, requests[i].transform, optimizeOk),
                                        fetchResult))
    /\ UNCHANGED <<call, ret, callers, storage, now, upstream>>

\* a method of the RedisCache is called directly: delete of the object's
\* key, deleteByPrefix of the object's prefix, or healthCheck
MethodCommand(method, by) ==
    IF method = "delete"
    THEN del({redisKeyOf(generateCacheKey(proxyCacheBaseUrl(VirtualHostedUrl), <<>>))}, by)
    ELSE IF method = "deleteByPrefix"
    THEN scan(keyPrefix \o generateCachePrefix(proxyCacheBaseUrl(VirtualHostedUrl)), by)
    ELSE ping(by)

CallRedis(method) ==
    /\ Len(callers) < MaxMaintenance
    /\ Cardinality(Gets) + Len(callers) < MaxGets
    /\ callers' = Append(callers, [method |-> method, pc |-> "awaiting", result |-> <<>>, failed |-> FALSE])
    /\ edgeCache' = redisSend(edgeCache, MethodCommand(method, 0 - (Len(callers) + 1)))
    /\ UNCHANGED <<call, ret, storage, now, flightVars, pipelineVars>>

\* the promise of the method resolves with value, its last command having
\* been answered (ok) or not
Resolves(c, value, ok) ==
    callers' = [callers EXCEPT ![c].pc = "done", ![c].result = <<value>>, ![c].failed = ~ok]

\* delete, lines 173-177, and the DEL of deleteByPrefix: answered or failed,
\* the method returns
DelAnswered(ok) ==
    /\ edgeCache.queue # <<>>
    /\ Head(edgeCache.queue).op = "del"
    /\ Resolves(0 - Head(edgeCache.queue).by, "undefined", ok)
    /\ edgeCache' = redisAnswered(edgeCache, ok)
    /\ UNCHANGED <<call, ret, storage, now, flightVars, pipelineVars>>

\* deleteByPrefix, lines 179-196: the SCAN is answered with the matching
\* keys and cursor 0; the keys are deleted, if there are any
Scanned(by, ok, keys) ==
    IF ok /\ keys # {}
    THEN /\ edgeCache' = redisSend(redisAnswered(edgeCache, ok), del(keys, by))
         /\ UNCHANGED callers
    ELSE /\ edgeCache' = redisAnswered(edgeCache, ok)
         /\ Resolves(0 - by, "undefined", ok)

ScanAnswered(ok) ==
    /\ edgeCache.queue # <<>>
    /\ Head(edgeCache.queue).op = "scan"
    /\ Scanned(Head(edgeCache.queue).by, ok,
               redisScan(edgeCache.db, Head(edgeCache.queue).pattern))
    /\ UNCHANGED <<call, ret, storage, now, flightVars, pipelineVars>>

\* healthCheck, lines 136-144: connect or PING fails, or PONG arrives
PingAnswered(ok) ==
    /\ edgeCache.queue # <<>>
    /\ Head(edgeCache.queue).op = "ping"
    /\ Resolves(0 - Head(edgeCache.queue).by, IF ok THEN "true" ELSE "false", ok)
    /\ edgeCache' = redisAnswered(edgeCache, ok)
    /\ UNCHANGED <<call, ret, storage, now, flightVars, pipelineVars>>

\* ---------------------------------------------------------------------------
\* The upstream GETs of one request under a configured allow-list: the route
\* validates (or not) and calls the pipeline, which on a cold cache calls
\* fetchUpstreamImage with config.allowedDomainsSet; the upstream answers
\* each GET with a redirect to any of the Location headers, or with 404.
\* ---------------------------------------------------------------------------
\* ALLOWED_DOMAINS as parsed by the configuration: the default, a list
\* without the Notion hosts, one with a further host, and an empty one
UpstreamAllowLists ==
    { DefaultAllowedDomains,
      { <<"i","m","a","g","e","s",".","u","n","s","p","l","a","s","h",".","c","o","m">> },
      DefaultAllowedDomains \cup { <<"e","v","i","l",".","e","x","a","m","p","l","e">> },
      {} }

UpstreamRequests ==
    { ProxyRequest(u, PlainVariant) :
          u \in { VirtualHostedUrl, PathStyleUrl, UnsplashUrl, ForeignUrl, CredentialsUrl,
                  <<"h","t","t","p",":","/","/","i","m","a","g","e","s",".","u","n","s","p","l","a","s","h",".","c","o","m","/","p","h","o","t","o","-","1">>,
                  <<"h","t","t","p","s",":","/","/","1","6","9",".","2","5","4",".","1","6","9",".","2","5","4","/","l","a","t","e","s","t","/","m","e","t","a","-","d","a","t","a">> } }
    \cup StableRequests

UpstreamAnswers ==
    { UpstreamResponse(302, l, NoHeader, NoHeader, FALSE) : l \in LocationHeaders }
    \cup { UpstreamResponse(404, NoHeader, NoHeader, NoHeader, FALSE) }

\* the plan of the route for req when the allow-list is allowed: the proxy
\* route validates req.url against it, the stable-path route validates
\* nothing
RoutePlan(req, allowed) ==
    IF req.route = "proxy"
    THEN proxyValidated(req.url, validateImageUrl(req.url, allowed), 1)
    ELSE imageRoutes(req, 1)

\* a request arrives at a server with an empty cache: the route answers by
\* itself, or the pipeline misses L2 and L3 and the closure calls
\* fetchUpstreamImage(upstreamUrl, {allowedDomains: config.allowedDomainsSet})
RouteCallsFetch(req, allowed) ==
    /\ call = NoCall
    /\ IF RoutePlan(req, allowed).reject
       THEN /\ call' = [fn |-> "route", req |-> req,
                        allowedDomains |-> AllowedDomains(allowed),
                        response |-> RoutePlan(req, allowed).response]
            /\ UNCHANGED upstream
       ELSE /\ call' = [fn |-> "fetchUpstreamImage", url |-> RoutePlan(req, allowed).upstreamUrl,
                        timeoutMs |-> 15000, maxSizeBytes |-> MaxSizeBytes,
                        allowedDomains |-> AllowedDomains(allowed),
                        phase |-> "fetch", hop |-> 0,
                        currentUrl |-> RoutePlan(req, allowed).upstreamUrl,
                        response |-> NoResponse, answered |-> 0,
                        contentType |-> <<>>, totalBytes |-> 0, timer |-> "armed",
                        req |-> req]
            /\ upstream' = Append(upstream, [url |-> RoutePlan(req, allowed).upstreamUrl,
                                             hop |-> 0])
    /\ UNCHANGED <<ret, callers, storeVars, flightVars, requests, puts>>

\* ---------------------------------------------------------------------------
\* The default server in front of an upstream that holds two objects of
\* different content, the first requested as it is and resized, by a signed
\* URL and by the same URL signed again, and purged; the server is freshly
\* started, or started over the cache directory of an earlier run that
\* fetched the first object.
\* ---------------------------------------------------------------------------
\* the answer of the upstream to a GET it serves: the object the path of the
\* URL names, whatever the signature; the image of block blk2 is one byte
\* shorter than that of block blk1
ObjectAt(url) ==
    LET size == IF includes(url, <<"b","l","k","2">>) THEN 2 ELSE 3
    IN  [error |-> FALSE, data |-> ImageOfLength(size), contentType |-> "image/png",
         originalSize |-> size]

ObjectRequests ==
    {ProxyRequest(VirtualHostedUrl, v) : v \in {PlainVariant, WebpVariant}}
    \cup {ProxyRequest(u, PlainVariant) : u \in {OtherBlockUrl, ResignedUrl}}

\* DELETE /api/v1/cache?url= for the first object
ObjectPurges == {[route |-> "purge", url |-> VirtualHostedUrl]}

InitObjects ==
    /\ call = NoCall /\ ret = <<>> /\ callers = <<>>
    /\ storage \in {EmptyFs,
                    storagePut(EmptyFs,
                               generateCacheKey(proxyCacheBaseUrl(VirtualHostedUrl), <<>>),
                               ObjectAt(VirtualHostedUrl).data,
                               [contentType |-> ObjectAt(VirtualHostedUrl).contentType])}
    /\ edgeCache = EmptyMemoryCache /\ now = 0
    /\ NoFlightsYet
    /\ NoRequestsYet

\* fetchUpstreamImage of leader i completes: the upstream served the object
\* at the request's upstream URL, or refused
FetchCompletesObject(i, served, optimizeOk) ==
    FetchCompletes(i, IF served THEN ObjectAt(requests[i].upstreamUrl) ELSE UpstreamError(403),
                   optimizeOk)

(***************************************************************************)
(* Specifications.                                                         *)
(***************************************************************************)
vars == <<call, ret, storage, edgeCache, now, flights, promises, callers, requests, puts, upstream>>

\* validateImageUrl applied to drawn inputs
NextValidate == Validate

SpecValidate == InitValidate /\ [][NextValidate]_vars

\* parseNotionUrl and the proxy route applied to drawn strings
NextParse == ParseNotion

SpecParse == InitParse /\ [][NextParse]_vars

\* parseIPv4 and isPrivateHost applied to drawn dotted-decimal strings
NextIPv4 == CheckPrivateHost

SpecIPv4 == InitIPv4 /\ [][NextIPv4]_vars

\* generateCacheKey and generateCachePrefix applied to drawn inputs
NextKey == GenerateKeys

SpecKey == InitKey /\ [][NextKey]_vars

\* the stores driven directly
NextStore ==
    \/ \E u \in StoreBaseUrls, o \in StoreVariants : StoragePut(u, o)
    \/ \E u \in StoreBaseUrls : StorageDeleteByPrefix(u)
    \/ \E u \in StoreBaseUrls, o \in StoreVariants : EdgeSet(u, o)
    \/ \E u \in StoreBaseUrls : EdgeDeleteByPrefix(u)

SpecStore == InitStore /\ [][NextStore]_vars

\* the MemoryCache driven directly
NextMemory ==
    \/ \E key \in MemoryKeys, length \in MemorySizes : MemorySet(key, length)
    \/ \E key \in MemoryKeys : MemoryGet(key)
    \/ \E key \in MemoryKeys : MemoryDelete(key)
    \/ Tick

SpecMemory == InitMemory /\ [][NextMemory]_vars

\* a MemoryCache called directly with get, set, delete and deleteByPrefix
NextMemoryOps ==
    \/ \E key \in PrefixedKeys, length \in MemorySizes : MemorySet(key, length)
    \/ \E key \in PrefixedKeys : MemoryGet(key)
    \/ \E key \in PrefixedKeys : MemoryDelete(key)
    \/ \E prefix \in MemoryPrefixes : MemoryDeleteByPrefix(prefix)
    \/ Tick

SpecMemoryOps == InitMemory /\ [][NextMemoryOps]_vars

\* Singleflight.do called directly
NextFlight ==
    \/ \E c \in 1..MaxCallers, key \in FlightKeys : DoAsFollower(c, key)
    \/ \E c \in 1..MaxCallers, key \in FlightKeys : DoAsLeader(c, key)
    \/ \E c \in 1..MaxCallers, ok \in BOOLEAN : FnSettles(c, ok)
    \/ \E c \in 1..MaxCallers : Resume(c)

SpecFlight == InitFlight /\ [][NextFlight]_vars

\* the server
Next ==
    \/ \E req \in ProxyRequests \cup StableRequests : Get(req)
    \/ \E i \in DOMAIN requests : L3Read(i)
    \/ \E i \in DOMAIN requests, fetchResult \in FetchResults, optimizeOk \in BOOLEAN :
           FetchCompletes(i, fetchResult, optimizeOk)
    \/ \E p \in puts : PutCompletes(p)
    \/ \E p \in puts : PutFails(p)
    \/ \E req \in PurgeRequests : Purge(req)
    \/ \E i \in DOMAIN requests : PurgeStorage(i)
    \/ \E i \in DOMAIN requests : PurgeEdge(i)
    \/ Tick

Spec == Init /\ [][Next]_vars

\* the default server with DELETE /api/v1/cache called in every way, and
\* GETs of one image, as it is and resized
NextCacheRoutes ==
    \/ \E req \in {ProxyRequest(VirtualHostedUrl, PlainVariant),
                    ProxyRequest(VirtualHostedUrl, WebpVariant)} : Get(req)
    \/ \E i \in DOMAIN requests : L3Read(i)
    \/ \E i \in DOMAIN requests, fetchResult \in FetchResults, optimizeOk \in BOOLEAN :
           FetchCompletes(i, fetchResult, optimizeOk)
    \/ \E p \in puts : PutCompletes(p)
    \/ \E p \in puts : PutFails(p)
    \/ \E req \in CacheDeleteRequests : CacheDelete(req)
    \/ \E i \in DOMAIN requests : PurgeStorage(i)
    \/ \E i \in DOMAIN requests : PurgeEdge(i)
    \/ Tick

SpecCacheRoutes == Init /\ [][NextCacheRoutes]_vars

\* the same server with an S3 bucket as the persistent store
SpecCacheRoutesS3 == InitS3 /\ [][NextCacheRoutes]_vars

\* fetchUpstreamImage called directly
NextFetch ==
    \/ \E url \in FetchUrls : CallFetch(url)
    \/ \E response \in UpstreamResponses : Respond(response)
    \/ \E n \in 1..MaxChunk : ReadChunk(n)
    \/ ReadDone
    \/ Abort
    \/ \E message \in NetworkErrorMessages : NetworkError(message)

SpecFetch == InitFetch /\ [][NextFetch]_vars

\* the same, with the timer of line 53: it fires unless the call has returned
SpecFetchLive == SpecFetch /\ WF_vars(Abort)

\* one request under a configured allow-list, and the GETs it causes
NextUpstream ==
    \/ \E req \in UpstreamRequests, allowed \in UpstreamAllowLists : RouteCallsFetch(req, allowed)
    \/ \E response \in UpstreamAnswers : Respond(response)
    \/ Abort

SpecUpstream == InitFetch /\ [][NextUpstream]_vars

\* the server in front of an upstream with two objects
NextObjects ==
    \/ \E req \in ObjectRequests : Get(req)
    \/ \E i \in DOMAIN requests : L3Read(i)
    \/ \E i \in DOMAIN requests, served \in BOOLEAN, optimizeOk \in BOOLEAN :
           FetchCompletesObject(i, served, optimizeOk)
    \/ \E p \in puts : PutCompletes(p)
    \/ \E p \in puts : PutFails(p)
    \/ \E req \in ObjectPurges : Purge(req)
    \/ \E i \in DOMAIN requests : PurgeStorage(i)
    \/ \E i \in DOMAIN requests : PurgeEdge(i)
    \/ Tick

SpecObjects == InitObjects /\ [][NextObjects]_vars

\* the server with a RedisCache, and I/O that can fail
NextRedis ==
    \/ \E req \in RedisRequests : GetRedis(req)
    \/ \E ok \in BOOLEAN : L2GetAnswered(ok)
    \/ \E ok \in BOOLEAN : L2SetAnswered(ok)
    \/ \E i \in DOMAIN requests : L3ReadRedis(i)
    \/ \E i \in DOMAIN requests : \E err \in ReadErrors : L3ReadFails(i, err)
    \/ \E i \in DOMAIN requests : \E fetchResult \in RedisFetchResults :
           \E optimizeOk \in BOOLEAN : FetchCompletesRedis(i, fetchResult, optimizeOk)
    \/ \E p \in puts : PutCompletes(p)
    \/ \E p \in puts : PutFails(p)
    \/ \E method \in RedisMethods : CallRedis(method)
    \/ \E ok \in BOOLEAN : DelAnswered(ok)
    \/ \E ok \in BOOLEAN : ScanAnswered(ok)
    \/ \E ok \in BOOLEAN : PingAnswered(ok)

SpecRedis == InitRedis /\ [][NextRedis]_vars

\* the same, every operation under way terminating: the command at the head
\* of the Redis connection's queue is answered, a storage.get returns or
\* throws, a call of fetchUpstreamImage returns (it has its own deadline)
SpecRedisLive ==
    /\ SpecRedis
    /\ WF_vars(\E ok \in BOOLEAN : L2GetAnswered(ok))
    /\ WF_vars(\E ok \in BOOLEAN : L2SetAnswered(ok))
    /\ WF_vars(\E ok \in BOOLEAN : DelAnswered(ok))
    /\ WF_vars(\E ok \in BOOLEAN : ScanAnswered(ok))
    /\ WF_vars(\E ok \in BOOLEAN : PingAnswered(ok))
    /\ WF_vars(\E i \in DOMAIN requests : L3ReadRedis(i))
    /\ WF_vars(\E i \in DOMAIN requests : \E fetchResult \in RedisFetchResults :
                  \E optimizeOk \in BOOLEAN : FetchCompletesRedis(i, fetchResult, optimizeOk))

\* the same server started over a cache directory that holds the object
SpecRestarted == InitRestarted /\ [][NextRedis]_vars

(***************************************************************************)
(* Properties.                                                             *)
(***************************************************************************)

\* The gates of the validator as the specification lists them, in order, with
\* the error each one raises.  A gate after "parseable" is read off the parsed
\* URL and counts as passed when the URL does not parse (an earlier gate has
\* failed by then).
GateCodes ==
    <<"MISSING_URL", "URL_TOO_LONG", "INVALID_URL", "HTTPS_REQUIRED",
      "CREDENTIALS_IN_URL", "PRIVATE_HOST", "DOMAIN_NOT_ALLOWED">>

GatePasses(g, rawUrl, allowedDomains) ==
    LET u == ParseUrl(rawUrl)
    IN  CASE g = 1 -> rawUrl # <<>>
          [] g = 2 -> Len(rawUrl) <= 4096
          [] g = 3 -> u.ok
          [] g = 4 -> u.ok => u.protocol = <<"h","t","t","p","s",":">>
          [] g = 5 -> u.ok => (u.username = <<>> /\ u.password = <<>>)
          [] g = 6 -> u.ok => ~isPrivateHost(toLowerCase(u.hostname))
          [] g = 7 -> u.ok => toLowerCase(u.hostname) \in allowedDomains

FailingGates(rawUrl, allowedDomains) ==
    {g \in 1..7 : ~GatePasses(g, rawUrl, allowedDomains)}

\* C10, with "private" read as the validator's own isPrivateHost:
\* validateImageUrl(raw, allowed) is valid exactly when raw passes every
\* gate (non-empty, at most 4096 characters, parseable, https, no userinfo,
\* host not private, host a member of allowed by exact match); when it is
\* invalid the error is that of the first failing gate in that order; a
\* private host gets PRIVATE_HOST even when it is listed in allowed; and
\* validating the same input again gives the same result.
C10_ValidatorGates ==
    (call.fn = "validateImageUrl") =>
        \A i \in 1..Len(ret) :
            LET failing == FailingGates(call.rawUrl, call.allowedDomains)
                u == ParseUrl(call.rawUrl)
            IN  /\ ret[i].valid <=> (failing = {})
                /\ ~ret[i].valid => ret[i].errorCode = GateCodes[MinOf(failing)]
                /\ (failing \cap (1..5) = {} /\ isPrivateHost(toLowerCase(u.hostname)))
                       => (~ret[i].valid /\ ret[i].errorCode = "PRIVATE_HOST")
                /\ ret[i] = ret[1]

\* a private host that the allow-list names has been validated twice and
\* rejected with PRIVATE_HOST
C10_Witness ==
    /\ call.fn = "validateImageUrl"
    /\ Len(ret) = 2
    /\ FailingGates(call.rawUrl, call.allowedDomains) = {6}
    /\ ret[2].errorCode = "PRIVATE_HOST"

\* The private-host predicate as the specification words it: localhost, names
\* under .local or .internal, the IPv6 loopback, unspecified, unique-local
\* (fc00::/7) and link-local (fe80::/10) addresses, IPv4-mapped IPv6 of a
\* private IPv4, and strict dotted-decimal IPv4 in the listed ranges.
IsDecimalOctet(p) ==
    /\ p # <<>>
    /\ Len(p) <= 3
    /\ \A i \in 1..Len(p) : p[i] \in Digits
    /\ (Len(p) > 1 => p[1] # "0")
    /\ NumberOf(p) <= 255

IsDottedQuad(h) ==
    LET parts == split(h, ".")
    IN  Len(parts) = 4 /\ \A i \in 1..4 : IsDecimalOctet(parts[i])

InPrivateRange(a, b, c) ==
    \/ a = 0 \/ a = 10 \/ a = 127 \/ a >= 224
    \/ (a = 100 /\ b >= 64 /\ b <= 127)
    \/ (a = 169 /\ b = 254)
    \/ (a = 172 /\ b >= 16 /\ b <= 31)
    \/ (a = 192 /\ b = 0 /\ c \in {0, 2})
    \/ (a = 192 /\ b = 168)
    \/ (a = 198 /\ b \in {18, 19})
    \/ (a = 198 /\ b = 51 /\ c = 100)
    \/ (a = 203 /\ b = 0 /\ c = 113)

IsPrivateDottedQuad(h) ==
    /\ IsDottedQuad(h)
    /\ InPrivateRange(NumberOf(split(h, ".")[1]), NumberOf(split(h, ".")[2]),
                      NumberOf(split(h, ".")[3]))

\* a: the text between the brackets of an IPv6 literal
IsPrivateIPv6(a) ==
    LET first == SubSeq(a, 1, IndexOfAny(a \o <<":">>, {":"}, 1) - 1)
    IN  \/ a \in { <<":",":","1">>, <<":",":">> }
        \/ /\ Len(first) = 4
           /\ \/ SubSeq(first, 1, 2) \in { <<"f","c">>, <<"f","d">> }
              \/ (SubSeq(first, 1, 3) = <<"f","e">> \o <<first[3]>> /\ first[3] \in {"8","9","a","b"})
        \/ /\ startsWith(a, <<":",":","f","f","f","f",":">>)
           /\ IsPrivateDottedQuad(Tail1(a, 8))

SpecPrivateHost(h) ==
    \/ h = <<"l","o","c","a","l","h","o","s","t">>
    \/ endsWith(h, <<".","l","o","c","a","l">>)
    \/ endsWith(h, <<".","i","n","t","e","r","n","a","l">>)
    \/ (Len(h) > 2 /\ h[1] = "[" /\ h[Len(h)] = "]" /\ IsPrivateIPv6(SubSeq(h, 2, Len(h) - 1)))
    \/ IsPrivateDottedQuad(h)

\* C10, with "private" read as the specification defines it: the result is
\* valid exactly when the input is non-empty, at most 4096 characters,
\* parseable, https, without userinfo, names a host that is not private and
\* that is a member of the allow-list.
C10_ValidIffEveryGatePasses ==
    (call.fn = "validateImageUrl" /\ Len(ret) > 0) =>
        LET u == ParseUrl(call.rawUrl)
        IN  ret[1].valid <=>
                /\ call.rawUrl # <<>>
                /\ Len(call.rawUrl) <= 4096
                /\ u.ok
                /\ u.protocol = <<"h","t","t","p","s",":">>
                /\ u.username = <<>> /\ u.password = <<>>
                /\ ~SpecPrivateHost(toLowerCase(u.hostname))
                /\ toLowerCase(u.hostname) \in call.allowedDomains

\* an allowed public host whose name begins with "fc" has been validated
C10_PublicHostRejected ==
    /\ call.fn = "validateImageUrl"
    /\ Len(ret) > 0
    /\ call.rawUrl = <<"h","t","t","p","s",":","/","/","f","c","d","n",".","i","o","/","a",".","p","n","g","?","x","=","1">>
    /\ <<"f","c","d","n",".","i","o">> \in call.allowedDomains
    /\ ret[1] = Invalid("PRIVATE_HOST")

\* what a reader finds under a key of the persistent store
StorageView(s, u, o) ==
    [got |-> storageGet(s, generateCacheKey(u, o)), exists |-> storageExists(s, generateCacheKey(u, o))]

\* C5 for the persistent store alone: after deleteByPrefix on the prefix of u
\* returns, no variant of u can be read or is reported to exist, and the
\* entries of every other base URL are as before.
C5_StorageDeleteByPrefix ==
    (call.fn = "storage.deleteByPrefix") =>
        \A o \in StoreVariants :
            /\ StorageView(storage, call.baseUrl, o) = [got |-> StorageNull, exists |-> FALSE]
            /\ \A u \in StoreBaseUrls \ {call.baseUrl} :
                   StorageView(storage, u, o) = StorageView(call.before, u, o)

\* C5 for the edge cache alone
C5_EdgeDeleteByPrefix ==
    (call.fn = "edgeCache.deleteByPrefix") =>
        \A o \in StoreVariants :
            /\ memGetResult(edgeCache, generateCacheKey(call.baseUrl, o), now) = EdgeNull
            /\ \A u \in StoreBaseUrls \ {call.baseUrl} :
                   memGetResult(edgeCache, generateCacheKey(u, o), now)
                     = memGetResult(call.before, generateCacheKey(u, o), now)

\* C5: for every persistent backend and for the edge cache, after
\* deleteByPrefix(cachePrefix(u)) returns, get(cacheKey(u, o)) finds nothing
\* for every stored variant o of u, and entries stored under another base URL
\* are unchanged.
C5_DeleteByPrefixRemovesAllVariants == C5_StorageDeleteByPrefix /\ C5_EdgeDeleteByPrefix

\* a variant was stored on the filesystem backend and deleteByPrefix ran on
\* the prefix of its base URL
C5_PurgedFileStillThere ==
    /\ call.fn = "storage.deleteByPrefix"
    /\ storage.kind = "fs"
    /\ \E o \in StoreVariants : storageGet(call.before, generateCacheKey(call.baseUrl, o)).hit
    /\ storage = call.before

\* the calls that took part in Singleflight.do
Called == {c \in DOMAIN callers : callers[c].pc # "idle"}

\* the leader whose fn the promise of call c wraps
LeaderOf(c) ==
    CHOOSE l \in Called : callers[l].role = "leader" /\ callers[l].promise = callers[c].promise

\* C2: with a flight registered under k, do(k, fn') never invokes fn' and
\* gives the leader's value with coalesced = true, or fails with the leader's
\* error; with none registered, do(k, fn) invokes fn exactly once and gives
\* its value with coalesced = false (or its error); and no two calls in
\* flight on the same key are both leaders.
C2_SingleflightDo ==
    /\ \A c \in Called :
          /\ callers[c].role = "follower" =>
                /\ callers[c].ran = 0
                /\ callers[LeaderOf(c)].key = callers[c].key
                /\ LeaderOf(c) # c
          /\ callers[c].role = "leader" => callers[c].ran = 1
          /\ callers[c].pc = "done" =>
                callers[c].outcome =
                    IF promises[callers[c].promise].ok
                    THEN [kind |-> "returned",
                          value |-> [by |-> LeaderOf(c), what |-> "value"],
                          coalesced |-> (callers[c].role = "follower")]
                    ELSE [kind |-> "threw", error |-> [by |-> LeaderOf(c), what |-> "error"]]
    /\ \A c1, c2 \in Called :
          (/\ c1 # c2
           /\ callers[c1].role = "leader" /\ callers[c2].role = "leader"
           /\ callers[c1].pc = "awaiting" /\ callers[c2].pc = "awaiting")
          => callers[c1].key # callers[c2].key

\* one flight has given its leader's value to a follower and another flight
\* has failed its follower with its leader's error
C2_Witness ==
    \E f1, f2 \in Called :
        /\ callers[f1].role = "follower" /\ callers[f1].pc = "done"
        /\ callers[f1].outcome.kind = "returned" /\ callers[f1].outcome.coalesced
        /\ callers[f2].role = "follower" /\ callers[f2].pc = "done"
        /\ callers[f2].outcome.kind = "threw"
        /\ callers[LeaderOf(f1)].pc = "done" /\ callers[LeaderOf(f2)].pc = "done"

\* ---------------------------------------------------------------------------
\* The request pipeline.
\* ---------------------------------------------------------------------------
\* requests i and j were being served at the same time
Overlap(i, j) == i \notin requests[j].after /\ j \notin requests[i].after

\* request i got an image
GotImage(i) == requests[i].response # Pending /\ requests[i].response.status = 200

\* the upstream GETs sent for request i
FetchesBy(i) == {k \in DOMAIN upstream : upstream[k].by = i}

\* every purge received was answered before request i arrived
NoPurgeSince(i) == \A p \in Purges : p \in requests[i].after

\* C1: requests that are served at the same time, on a cold cache, and that
\* share a cache key cause one upstream fetch in total when that fetch
\* succeeds: no second GET is sent for the key, however the probes of L2 and
\* L3 and the calls of the coordinator interleave.
C1_OneFetchPerKey ==
    \A a, b \in DOMAIN upstream :
        (/\ a < b
         /\ upstream[a].cacheKey = upstream[b].cacheKey
         /\ Overlap(upstream[a].by, upstream[b].by)
         /\ Purges = {}
         /\ Gets = {upstream[a].by, upstream[b].by})
        => ~GotImage(upstream[a].by)

\* two requests for one key overlap, the first one's fetch has succeeded and
\* the second one has sent a GET of its own
C1_SecondFetch ==
    \E a, b \in DOMAIN upstream :
        /\ a < b
        /\ upstream[a].cacheKey = upstream[b].cacheKey
        /\ Overlap(upstream[a].by, upstream[b].by)
        /\ Purges = {}
        /\ GotImage(upstream[a].by)
        /\ requests[upstream[a].by].response.xCacheTier = "ORIGIN"
        /\ requests[upstream[b].by].pc = "fetching"

\* L2 holds an entry for key that has not expired
LiveInL2(key) ==
    \E s \in DOMAIN edgeCache.cache :
        edgeCache.cache[s].key = key /\ now <= edgeCache.cache[s].expiresAt

\* request i enters the pipeline in this step
EntersPipeline(i) ==
    /\ i \notin DOMAIN requests
    /\ i \in DOMAIN requests'
    /\ requests'[i].req.route # "purge"
    /\ requests'[i].upstreamErrorMode # "none"

\* the upstream GET of request i is sent in this step
SendsGet(i) == Len(upstream') = Len(upstream) + 1 /\ upstream'[Len(upstream')].by = i

\* a storage.get cannot be seen in the state; a request reads L3 exactly
\* while it is at "l3"
ReadsL3(i) == i \in DOMAIN requests /\ requests[i].pc = "l3"

\* C3: within one request the L2 probe is over before the L3 read starts and
\* the L3 read is over before an upstream fetch starts.  A request that
\* enters the pipeline probes L2 in that step; on a hit it is answered
\* L2_EDGE at once, reads L3 never and fetches never; only on a miss does it
\* start reading L3.  A GET is sent for a request only in the step in which
\* its L3 read returns, with no entry under its key in L3, and for a request
\* that is not reading L3 nothing changes but the note of its L3 write.
C3_ProbeOrder ==
    [][\A i \in DOMAIN requests' :
          /\ EntersPipeline(i) =>
                /\ upstream' = upstream /\ storage' = storage
                /\ IF LiveInL2(requests'[i].cacheKey)
                   THEN /\ requests'[i].pc = "done"
                        /\ requests'[i].response.xCacheTier = "L2_EDGE"
                   ELSE /\ requests'[i].pc = "l3"
                        /\ requests'[i].response = Pending
          /\ SendsGet(i) =>
                /\ ReadsL3(i)
                /\ ~storageExists(storage, requests[i].cacheKey)
                /\ requests'[i].pc = "fetching"
          /\ (i \in DOMAIN requests /\ requests[i].pc = "done") =>
                /\ requests'[i].pc = "done"
                /\ requests'[i].response = requests[i].response
                /\ ~SendsGet(i)
      ]_vars

\* one request has fetched after missing both tiers, and a later one was
\* answered from L2 on arrival, without a GET
C3_Witness ==
    \E i, j \in Gets :
        /\ FetchesBy(i) # {} /\ GotImage(i)
        /\ i \in requests[j].after
        /\ GotImage(j) /\ requests[j].response.xCacheTier = "L2_EDGE"
        /\ FetchesBy(j) = {}

\* i and j are proxy requests whose URLs are equal up to the first "?" and
\* that carry the same transform parameters and Accept header
SameButSignature(i, j) ==
    /\ requests[i].req.route = "proxy" /\ requests[j].req.route = "proxy"
    /\ purgeBaseUrl(requests[i].req.url) = purgeBaseUrl(requests[j].req.url)
    /\ requests[i].req.query = requests[j].req.query
    /\ requests[i].req.accept = requests[j].req.accept

\* C7: two proxy requests whose URLs differ in the query string only, with
\* the same transform parameters and Accept header, have the same cache key;
\* when the second arrives after the first was answered with the image and
\* the first one's write to L3 has completed (and no purge has run since),
\* the second is answered as a HIT and sends no GET upstream.
C7_SignatureNotInKey ==
    \A i, j \in Gets :
        (i # j /\ SameButSignature(i, j)) =>
            /\ requests[i].cacheKey = requests[j].cacheKey
            /\ (/\ i \in requests[j].after /\ i \in requests[j].landed
                /\ GotImage(i)
                /\ NoPurgeSince(i)) =>
                   /\ FetchesBy(j) = {}
                   /\ requests[j].pc \in {"l3", "done"}
                   /\ requests[j].pc = "done" =>
                         /\ requests[j].response.status = 200
                         /\ requests[j].response.xCache = "HIT"
                         /\ requests[j].response.data = requests[i].response.data

\* the second request carries another signature and was answered from L3,
\* the entry of L2 having expired
C7_Witness ==
    \E i, j \in Gets :
        /\ SameButSignature(i, j)
        /\ requests[i].req.url # requests[j].req.url
        /\ i \in requests[j].after /\ i \in requests[j].landed
        /\ GotImage(i) /\ requests[i].response.xCacheTier = "ORIGIN"
        /\ NoPurgeSince(i)
        /\ GotImage(j) /\ requests[j].response.xCacheTier = "L3_PERSISTENT"

\* request j is the request i again
Identical(i, j) == requests[i].req = requests[j].req

\* j arrived before the entry that i wrote at its response could expire;
\* time stands still while a request is served, so i answered at its arrival
WithinTtl(i, j) == requests[j].at <= requests[i].at + CACHE_TTL_SECONDS * 1000

\* no request could have pushed the entry of i out of L2 before j arrived:
\* every other GET has the key of i or came after j was answered
NotEvicted(i, j) ==
    \A k \in Gets \ {i, j} :
        \/ requests[k].cacheKey = requests[i].cacheKey
        \/ j \in requests[k].after

\* C8: when a request was answered MISS / ORIGIN and the same request is
\* made again after that response, within the TTL, the entry not evicted and
\* not purged, the second one is answered on arrival, X-Cache: HIT and
\* X-Cache-Tier: L2_EDGE, and sends no GET upstream; its bytes are those of
\* an ORIGIN response for the key that came before it (the last to write L2,
\* which need not be the first request when two fetches overlapped).
C8_SecondRequestHitsL2 ==
    \A i, j \in Gets :
        (/\ i # j /\ Identical(i, j)
         /\ GotImage(i) /\ requests[i].response.xCacheTier = "ORIGIN"
         /\ i \in requests[j].after
         /\ WithinTtl(i, j) /\ NotEvicted(i, j) /\ NoPurgeSince(i)) =>
            /\ requests[j].pc = "done"
            /\ requests[j].response.status = 200
            /\ requests[j].response.xCache = "HIT"
            /\ requests[j].response.xCacheTier = "L2_EDGE"
            /\ \E k \in requests[j].after \cap Gets :
                /\ requests[k].cacheKey = requests[i].cacheKey
                /\ GotImage(k) /\ requests[k].response.xCacheTier = "ORIGIN"
                /\ requests[j].response.data = requests[k].response.data
                /\ requests[j].response.contentType = requests[k].response.contentType
            /\ FetchesBy(j) = {}

\* the second request was answered from L2 while the first one's write to L3
\* was still under way
C8_Witness ==
    \E i, j \in Gets :
        /\ i # j /\ Identical(i, j)
        /\ GotImage(i) /\ requests[i].response.xCacheTier = "ORIGIN"
        /\ requests[i].response.xCache = "MISS"
        /\ i \in requests[j].after
        /\ WithinTtl(i, j) /\ NoPurgeSince(i)
        /\ requests[i].put = "pending"
        /\ GotImage(j) /\ requests[j].response.xCacheTier = "L2_EDGE"

\* C9: identical proxy requests that are served at the same time on a cold
\* cache and whose fetch succeeds: exactly one response is X-Cache: MISS,
\* X-Cache-Tier: ORIGIN with X-Original-Size, every other one is
\* X-Cache: HIT, X-Cache-Tier: L2_EDGE without X-Original-Size, and all carry
\* the same bytes and content type.
C9_OneOriginResponse ==
    \A i, j \in Gets :
        (/\ i < j /\ Identical(i, j) /\ requests[i].req.route = "proxy"
         /\ Overlap(i, j)
         /\ Purges = {} /\ Gets = {i, j}
         /\ GotImage(i) /\ GotImage(j)) =>
            /\ requests[i].response.data = requests[j].response.data
            /\ requests[i].response.contentType = requests[j].response.contentType
            /\ \E o \in {i, j} :
                  /\ requests[o].response.xCacheTier = "ORIGIN"
                  /\ requests[o].response.xCache = "MISS"
                  /\ requests[o].response.xOriginalSize # <<>>
                  /\ \A f \in {i, j} \ {o} :
                        /\ requests[f].response.xCacheTier = "L2_EDGE"
                        /\ requests[f].response.xCache = "HIT"
                        /\ requests[f].response.xOriginalSize = <<>>

\* two identical overlapping requests were both answered MISS / ORIGIN
C9_TwoOriginResponses ==
    \E i, j \in Gets :
        /\ i < j /\ Identical(i, j) /\ requests[i].req.route = "proxy"
        /\ Overlap(i, j)
        /\ Purges = {}
        /\ GotImage(i) /\ requests[i].response.xCacheTier = "ORIGIN"
        /\ GotImage(j) /\ requests[j].response.xCacheTier = "ORIGIN"

\* of two identical overlapping requests the second was answered from L3
C9_OriginAndL3 ==
    \E i, j \in Gets :
        /\ i < j /\ Identical(i, j) /\ requests[i].req.route = "proxy"
        /\ Overlap(i, j)
        /\ Purges = {}
        /\ GotImage(i) /\ requests[i].response.xCacheTier = "ORIGIN"
        /\ GotImage(j) /\ requests[j].response.xCacheTier = "L3_PERSISTENT"

\* the writes request h started were over when request p arrived
QuietBefore(h, p) ==
    /\ h \in requests[p].after
    /\ requests[h].put # "pending"
    /\ requests[h].put = "written" => h \in requests[p].landed

\* g is the first GET after the purge p was answered 200, for the URL purged:
\* every other GET came after g, or was over before p arrived
NextGetAfterPurge(p, g) ==
    /\ requests[p].response = [status |-> 200, purgedBy |-> "url"]
    /\ requests[g].req.route = "proxy"
    /\ requests[g].req.url = requests[p].req.url
    /\ p \in requests[g].after
    /\ \A h \in Gets \ {g} : g \in requests[h].after \/ QuietBefore(h, p)

\* C4: after DELETE /api/v1/cache?url=U was answered 200, the next
\* GET /api/v1/proxy?url=U that is given an image is answered X-Cache: MISS,
\* X-Cache-Tier: ORIGIN after an upstream fetch of its own: the purge has
\* removed every variant of U from L2 and from L3.
C4_PurgeThenOrigin ==
    \A p \in Purges, g \in Gets :
        (NextGetAfterPurge(p, g) /\ requests[g].pc = "done") =>
            /\ FetchesBy(g) # {}
            /\ GotImage(g) =>
                  /\ requests[g].response.xCache = "MISS"
                  /\ requests[g].response.xCacheTier = "ORIGIN"

\* C4 for L2 alone: the next GET after the purge is not answered from L2
C4_PurgeEmptiesL2 ==
    \A p \in Purges, g \in Gets :
        (NextGetAfterPurge(p, g) /\ GotImage(g)) =>
            requests[g].response.xCacheTier # "L2_EDGE"

\* the image was cached and written to L3, then purged, and the next GET
\* was answered from L3
C4_ServedFromL3AfterPurge ==
    \E p \in Purges, g \in Gets :
        /\ NextGetAfterPurge(p, g)
        /\ GotImage(g) /\ requests[g].response.xCacheTier = "L3_PERSISTENT"
        /\ FetchesBy(g) = {}

\* j is the stable-path request for the components parseNotionUrl finds in
\* the URL of the proxy request i, with the same transform parameters and
\* Accept header
StableOf(i, j, parsed) ==
    /\ parsed.kind = "parsed"
    /\ requests[j].req.workspaceId = parsed.workspaceId
    /\ requests[j].req.blockId = parsed.blockId
    /\ requests[j].req.filename = parsed.filename
    /\ requests[j].req.query = requests[i].req.query
    /\ requests[j].req.accept = requests[i].req.accept

ProxyThenStable(i, j) ==
    /\ requests[i].req.route = "proxy" /\ requests[j].req.route = "stable"
    /\ StableOf(i, j, parseNotionUrl(requests[i].req.url))
    /\ GotImage(i)
    /\ i \in requests[j].after /\ i \in requests[j].landed
    /\ NoPurgeSince(i)

\* C6: after a proxy request for a recognised URL U was answered with the
\* image, the stable-path GET for the components parsed from U, with the
\* same options, has the cache key of the proxy request, is answered 200
\* X-Cache: HIT and sends no GET upstream; on a cold cache, the upstream
\* refusing the unsigned URL, the stable-path GET is answered 404
\* IMAGE_NOT_CACHED.
C6_StableKeyIsProxyKey ==
    /\ \A i, j \in Gets :
          ProxyThenStable(i, j) =>
              /\ requests[j].cacheKey = requests[i].cacheKey
              /\ FetchesBy(j) = {}
              /\ requests[j].pc = "done" =>
                    /\ requests[j].response.status = 200
                    /\ requests[j].response.xCache = "HIT"
    /\ \A j \in Gets :
          (/\ requests[j].req.route = "stable" /\ requests[j].pc = "done"
           /\ requests[j].after = {} /\ requests[j].landed = {}
           /\ ~GotImage(j)) =>
              /\ requests[j].response.status = 404
              /\ requests[j].response.code = "IMAGE_NOT_CACHED"

\* the stable-path request that follows a proxy request for the path-style
\* URL of the same object misses both tiers and asks the upstream
C6_StableMissesAfterProxy ==
    \E i, j \in Gets :
        /\ ProxyThenStable(i, j)
        /\ requests[i].req.url = PathStyleUrl
        /\ requests[j].cacheKey # requests[i].cacheKey
        /\ FetchesBy(j) # {}
        /\ requests[j].response.status = 404
        /\ requests[j].response.code = "IMAGE_NOT_CACHED"

\* C6 for the virtual-hosted URLs of the object
C6_VirtualHostedFamily ==
    \A i, j \in Gets :
        (ProxyThenStable(i, j) /\ requests[i].req.url # PathStyleUrl) =>
            /\ requests[j].cacheKey = requests[i].cacheKey
            /\ FetchesBy(j) = {}
            /\ requests[j].pc = "done" =>
                  /\ requests[j].response.status = 200
                  /\ requests[j].response.xCache = "HIT"

\* ---------------------------------------------------------------------------
\* fetchUpstreamImage
\* ---------------------------------------------------------------------------
Fetching == call.fn = "fetchUpstreamImage"

Returned == Fetching /\ call.phase = "done"

\* the call returned because the timer fired or the network failed
Interrupted == ret[1].error /\ ret[1].code \in {"UPSTREAM_TIMEOUT", "FETCH_FAILED"}

ReturnedError(status, code) ==
    /\ call'.phase = "done"
    /\ ret' = <<ret'[1]>>
    /\ ret'[1].error /\ ret'[1].status = status /\ ret'[1].code = code

\* the step in which a redirect response is received
RedirectAnswered ==
    /\ Fetching /\ call.phase = "fetch"
    /\ call'.answered = call.answered + 1
    /\ isRedirect(call'.response.status)

\* what the Location of the response received in this step resolves to
RedirectTarget == ResolveUrl(call'.response.location.value, call.currentUrl)

\* C11: when a redirect response (301, 302, 303, 307, 308) is received: a
\* Location that is missing (absent or empty) or that does not resolve
\* against the current URL ends the call with INVALID_REDIRECT (502); a
\* target that fails the validator against the allowed hosts ends it with
\* REDIRECT_BLOCKED (403); in both cases no GET is sent; otherwise the only
\* GET that may follow goes to the resolved target.  So every GET after the
\* first went to a URL that passes the validator.
C11_RedirectTargetsValidated ==
    /\ [](Fetching =>
            \A k \in 2..Len(upstream) :
                validateImageUrl(upstream[k].url, DefaultAllowedDomains).valid)
    /\ [][RedirectAnswered =>
            IF ~call'.response.location.present \/ call'.response.location.value = <<>>
            THEN ReturnedError(502, "INVALID_REDIRECT") /\ upstream' = upstream
            ELSE IF ~RedirectTarget.ok
            THEN ReturnedError(502, "INVALID_REDIRECT") /\ upstream' = upstream
            ELSE IF ~validateImageUrl(RedirectTarget.href, DefaultAllowedDomains).valid
            THEN ReturnedError(403, "REDIRECT_BLOCKED") /\ upstream' = upstream
            ELSE \/ upstream' = upstream
                 \/ upstream' = Append(upstream, [url |-> RedirectTarget.href,
                                                  hop |-> call.hop + 1])]_vars

\* after one redirect was followed, the next one pointed at a private
\* address of the current scheme and was blocked
C11_Witness ==
    /\ Returned
    /\ ret[1].error /\ ret[1].code = "REDIRECT_BLOCKED" /\ ret[1].status = 403
    /\ call.hop = 1 /\ Len(upstream) = 2
    /\ call.response.location = Header(<<"/","/","1","0",".","0",".","0",".","1","/","a",".","p","n","g">>)

\* the redirect received last is one the fetcher may follow
AllowedRedirect ==
    /\ isRedirect(call.response.status)
    /\ call.response.location.present /\ call.response.location.value # <<>>
    /\ ResolveUrl(call.response.location.value, call.currentUrl).ok
    /\ validateImageUrl(ResolveUrl(call.response.location.value, call.currentUrl).href,
                        DefaultAllowedDomains).valid

\* C12: one call sends at most MAX_REDIRECTS + 1 = 6 GETs, one per hop; it
\* ends with TOO_MANY_REDIRECTS (502) exactly when the sixth response is one
\* more allowed redirect, so an image that arrives after at most five
\* redirects is returned; and the call always returns.
C12_AtMostFiveRedirects ==
    /\ [](Fetching =>
            /\ Len(upstream) <= MAX_REDIRECTS + 1
            /\ Len(upstream) = call.hop + 1
            /\ call.answered <= Len(upstream)
            /\ (Returned =>
                  /\ Len(ret) = 1
                  /\ (ret[1].error /\ ret[1].code = "TOO_MANY_REDIRECTS")
                        <=> (call.answered = MAX_REDIRECTS + 1 /\ AllowedRedirect)
                  /\ (ret[1].error /\ ret[1].code = "TOO_MANY_REDIRECTS")
                        => ret[1].status = 502))
    /\ (Fetching ~> Returned)

\* an image returned after five redirects, by the sixth GET
C12_Witness ==
    /\ Returned
    /\ ~ret[1].error
    /\ call.hop = MAX_REDIRECTS /\ Len(upstream) = MAX_REDIRECTS + 1
    /\ call.answered = MAX_REDIRECTS + 1

\* the sixth redirect in a row ended the call
C12_SixRedirects ==
    /\ Returned
    /\ ret[1].error /\ ret[1].code = "TOO_MANY_REDIRECTS"
    /\ Len(upstream) = MAX_REDIRECTS + 1

\* the call returned on a response that passed the status and content-type
\* gates
ImageAnswered ==
    /\ Returned /\ ~Interrupted
    /\ IsOk(call.response.status)
    /\ startsWith(HeaderOr(call.response.contentType, <<>>), <<"i","m","a","g","e","/">>)

DeclaredTooLarge ==
    /\ call.response.contentLength.present
    /\ ~parseInt(call.response.contentLength.value).nan
    /\ parseInt(call.response.contentLength.value).value > call.maxSizeBytes

ReturnedFetchError(status, code) ==
    ret[1].error /\ ret[1].status = status /\ ret[1].code = code

ReturnedImage ==
    /\ ~ret[1].error
    /\ ret[1].originalSize = ret[1].data.length
    /\ ret[1].originalSize = call.totalBytes
    /\ ret[1].originalSize >= 1 /\ ret[1].originalSize <= call.maxSizeBytes

\* the size gates, with the error a response of no bytes ends in left open
SizeGates(emptyCodes) ==
    /\ (Fetching /\ call.phase = "read") => call.totalBytes <= call.maxSizeBytes
    /\ (Returned /\ ~ret[1].error) => ReturnedImage
    /\ ImageAnswered =>
         IF DeclaredTooLarge
         THEN ReturnedFetchError(413, "IMAGE_TOO_LARGE") /\ call.totalBytes = 0
         ELSE IF call.totalBytes > call.maxSizeBytes
         THEN ReturnedFetchError(413, "IMAGE_TOO_LARGE")
         ELSE IF call.totalBytes = 0
         THEN ret[1].error /\ ret[1].status = 502 /\ ret[1].code \in emptyCodes
         ELSE ReturnedImage

\* C13: for every response that passed the status and content-type gates: a
\* declared Content-Length above maxSizeBytes fails IMAGE_TOO_LARGE (413)
\* with no body byte read; otherwise the call fails IMAGE_TOO_LARGE as soon
\* as the bytes read exceed maxSizeBytes, fails EMPTY_BODY (502) when no byte
\* was read, and else returns the bytes read, 1 <= originalSize = length <=
\* maxSizeBytes.
C13_BodySizeGates == SizeGates({"EMPTY_BODY"})

\* the same, with EMPTY_RESPONSE for a response without a body stream
C13_SizeEnforced ==
    /\ SizeGates({"EMPTY_BODY", "EMPTY_RESPONSE"})
    /\ (ImageAnswered /\ ~DeclaredTooLarge /\ call.totalBytes = 0) =>
           (ret[1].code = "EMPTY_RESPONSE" <=> ~call.response.body)

\* a 204 with an image content type: no body stream, and EMPTY_RESPONSE
C13_NullBody ==
    /\ ImageAnswered
    /\ call.response.status = 204 /\ ~call.response.body
    /\ ReturnedFetchError(502, "EMPTY_RESPONSE")

\* a body longer than its declared length was cut off as it passed the limit
C13_LyingLength ==
    /\ ImageAnswered
    /\ call.response.contentLength = Header(StringOf(MaxSizeBytes - 1))
    /\ call.totalBytes > call.maxSizeBytes
    /\ ReturnedFetchError(413, "IMAGE_TOO_LARGE")

\* C16: a response whose status is neither a redirect nor OK returns the
\* fetch error UPSTREAM_ERROR with that status, 403 excepted, which returns
\* 502; no UPSTREAM_ERROR returned carries 403.
C16_UpstreamErrorStatus ==
    /\ (Returned /\ ~Interrupted /\ ~isRedirect(call.response.status)
          /\ ~IsOk(call.response.status)) =>
           /\ ret[1].error /\ ret[1].code = "UPSTREAM_ERROR"
           /\ ret[1].status = IF call.response.status = 403 THEN 502
                              ELSE call.response.status
    /\ (Returned /\ ret[1].error /\ ret[1].code = "UPSTREAM_ERROR") =>
           /\ ret[1].status # 403
           /\ ~isRedirect(call.response.status) /\ ~IsOk(call.response.status)

\* the upstream answered 403 and the call returned 502
C16_Witness ==
    /\ Returned
    /\ call.response.status = 403
    /\ ReturnedFetchError(502, "UPSTREAM_ERROR")

\* the requests of the proxy route whose url parameter is absent, and those
\* whose url fails validateImageUrl
MissingUrl == {i \in DOMAIN requests : requests[i].req.route = "proxy" /\ requests[i].req.url = <<>>}

FailingUrl ==
    {i \in DOMAIN requests :
        /\ requests[i].req.route = "proxy"
        /\ requests[i].req.url # <<>>
        /\ ~validateImageUrl(requests[i].req.url, DefaultAllowedDomains).valid}

\* request i has touched neither tier nor the upstream
TouchedNothing(i) ==
    /\ requests[i].l2 = "none" /\ requests[i].l3 = "none"
    /\ requests[i].l2set = "none" /\ requests[i].put = "none"
    /\ requests[i].fetched = <<>>
    /\ \A g \in DOMAIN upstream : upstream[g].by # i
    /\ \A q \in DOMAIN edgeCache.queue : edgeCache.queue[q].by # i
    /\ \A p \in puts : p.by # i
    /\ \A id \in DOMAIN promises : \A w \in DOMAIN promises[id].waiters :
           promises[id].waiters[w] # i

\* the step in which a request arrives
Arrives == Len(requests') = Len(requests) + 1

\* C14: a proxy request without url is answered 400 MISSING_URL and one
\* whose url fails validation 403 with the validator's error code; either is
\* answered in the step of its arrival, which leaves both tiers, the
\* flights, the upstream and the pending writes as they were, and no later
\* step probes, fetches or writes for it.
C14_ValidationPrecedesAccess ==
    /\ [](\A i \in MissingUrl :
              /\ requests[i].response.status = 400
              /\ requests[i].response.code = "MISSING_URL"
              /\ TouchedNothing(i))
    /\ [](\A i \in FailingUrl :
              /\ requests[i].response.status = 403
              /\ requests[i].response.code =
                     validateImageUrl(requests[i].req.url, DefaultAllowedDomains).errorCode
              /\ TouchedNothing(i))
    /\ [][(Arrives /\ requests'[Len(requests')].upstreamErrorMode = "none")
              => UNCHANGED <<edgeCache, storage, flightVars, puts, upstream>>]_vars

\* the URL with credentials is refused although the image it names was
\* written to L3 and to L2 before the request arrived
C14_Witness ==
    \E i \in FailingUrl : \E j \in requests[i].landed :
        /\ requests[i].req.url = CredentialsUrl
        /\ requests[i].response.code = "CREDENTIALS_IN_URL"
        /\ requests[j].cacheKey = generateCacheKey(proxyCacheBaseUrl(CredentialsUrl), <<>>)
        /\ requests[j].l2set = "stored"
        /\ redisKeyOf(requests[j].cacheKey) \in DOMAIN edgeCache.db

\* the promise id settles in this step with a fetch error
SettlesWithError(id) ==
    /\ ~promises[id].settled
    /\ promises'[id].settled
    /\ promises'[id].value.kind = "error"

Relayed(response, fetchError) ==
    response.status = fetchError.status /\ response.code = fetchError.code

NotCached(response) == response.status = 404 /\ response.code = "IMAGE_NOT_CACHED"

\* the answer of a caller in mode upstreamErrorMode to fetchError
AnswersAsItsMode(upstreamErrorMode, response, fetchError) ==
    IF upstreamErrorMode = "cache-miss"
    THEN /\ NotCached(response) <=> fetchError.status \in {403, 404, 502}
         /\ fetchError.status \notin {403, 404, 502} => Relayed(response, fetchError)
    ELSE Relayed(response, fetchError)

\* C15: when a flight ends in a fetch error with status s, every caller of
\* the flight, leader or follower, answers by its own mode: in cache-miss
\* mode 404 IMAGE_NOT_CACHED iff s is 403, 404 or 502 and the error's status
\* and code otherwise; in relay mode always the error's status and code.
C15_ErrorAnsweredByCallersMode ==
    [][\A id \in DOMAIN promises :
           SettlesWithError(id) =>
               \A w \in DOMAIN promises[id].waiters :
                   AnswersAsItsMode(requests[promises[id].waiters[w]].upstreamErrorMode,
                                    requests'[promises[id].waiters[w]].response,
                                    promises'[id].value.fetchError)]_vars

\* one flight, one GET, the upstream's 403: the leader, a proxy request,
\* relays 502 UPSTREAM_ERROR and its follower, a stable-path request,
\* answers 404 IMAGE_NOT_CACHED
C15_Witness ==
    \E i, j \in DOMAIN requests :
        /\ Len(upstream) = 1 /\ upstream[1].by = i
        /\ requests[i].fetched = <<UpstreamError(403)>>
        /\ requests[i].upstreamErrorMode = "relay"
        /\ requests[i].response.status = 502 /\ requests[i].response.code = "UPSTREAM_ERROR"
        /\ requests[j].upstreamErrorMode = "cache-miss"
        /\ requests[j].cacheKey = requests[i].cacheKey
        /\ requests[j].l3 = "probed"
        /\ NotCached(requests[j].response)

\* the reverse: the leader in cache-miss mode answers 404 IMAGE_NOT_CACHED to
\* the upstream's 404, while its follower relays 404 UPSTREAM_ERROR
C15_LeaderNotCachedFollowerRelays ==
    \E i, j \in DOMAIN requests :
        /\ Len(upstream) = 1 /\ upstream[1].by = i
        /\ requests[i].fetched = <<UpstreamError(404)>>
        /\ requests[i].upstreamErrorMode = "cache-miss"
        /\ NotCached(requests[i].response)
        /\ requests[j].upstreamErrorMode = "relay"
        /\ requests[j].l3 = "probed"
        /\ requests[j].response.status = 404 /\ requests[j].response.code = "UPSTREAM_ERROR"

\* the fetch of leader i completes in this step with an image on which sharp
\* throws
OptimizerFails(i) ==
    /\ requests[i].pc = "fetching"
    /\ requests'[i].fetched # <<>>
    /\ ~requests'[i].fetched[1].error
    /\ ~requests'[i].optimized

Carries(response, data, contentType) ==
    response.status = 200 /\ response.data = data /\ response.contentType = contentType

\* what the step of leader i does with the fetched image f
CarriesForward(i, f) ==
    /\ \A w \in DOMAIN promises[flights[requests[i].cacheKey]].waiters :
           Carries(requests'[promises[flights[requests[i].cacheKey]].waiters[w]].response,
                   f.data, f.contentType)
    /\ puts' = puts \cup {[by |-> i, cacheKey |-> requests[i].cacheKey, data |-> f.data,
                           metadata |-> [contentType |-> f.contentType]]}
    /\ edgeCache'.queue =
           Append(edgeCache.queue,
                  setex(redisKeyOf(requests[i].cacheKey), CACHE_TTL_SECONDS,
                        serializeEntry([data |-> f.data, contentType |-> f.contentType]), i))

\* the write of request i to L3, or to L2, takes effect in this step
PutLands(i) == requests[i].put = "pending" /\ requests'[i].put = "written"

SetLands(i) == requests[i].l2set = "pending" /\ requests'[i].l2set = "stored"

Holds(hit, data, contentType) ==
    hit.hit /\ hit.entry.data = data /\ hit.entry.contentType = contentType

\* C17: when sharp throws on a fetched image, the leader and every follower
\* of its flight are answered 200 with the fetched bytes and the fetcher's
\* content type, the L3 put and the L2 set started carry these bytes under
\* the request's key, and they are what either tier holds under that key
\* once the write has taken effect; a request whose fetch returned an image
\* never has an error response.
C17_OptimizerFailureCarriesOriginal ==
    /\ [][\A i \in DOMAIN requests :
              OptimizerFails(i) => CarriesForward(i, requests'[i].fetched[1])]_vars
    /\ [][\A i \in DOMAIN requests :
              (requests[i].fetched # <<>> /\ ~requests[i].fetched[1].error
               /\ ~requests[i].optimized) =>
                  /\ PutLands(i) =>
                         LET l3Hit == storageGet(storage', requests[i].cacheKey)
                         IN  /\ l3Hit.hit
                             /\ l3Hit.data = requests[i].fetched[1].data
                             /\ l3Hit.metadata.contentType = requests[i].fetched[1].contentType
                  /\ SetLands(i) =>
                         Holds(redisGet(edgeCache'.db, redisKeyOf(requests[i].cacheKey),
                                        TRUE, now),
                               requests[i].fetched[1].data,
                               requests[i].fetched[1].contentType)]_vars
    /\ [](\A i \in DOMAIN requests :
              (requests[i].fetched # <<>> /\ ~requests[i].fetched[1].error) =>
                  requests[i].response.status = 200)

\* a resized WebP was asked for twice at once, sharp threw: leader and
\* follower have the three bytes of the PNG, and so have both tiers
C17_Witness ==
    \E i, j \in DOMAIN requests :
        /\ i # j
        /\ requests[i].req = ProxyRequest(VirtualHostedUrl, WebpVariant)
        /\ requests[i].fetched = <<FetchedImage>> /\ ~requests[i].optimized
        /\ Carries(requests[i].response, ImageOfLength(3), "image/png")
        /\ requests[i].response.xCacheTier = "ORIGIN"
        /\ requests[j].cacheKey = requests[i].cacheKey
        /\ requests[j].fetched = <<>>
        /\ Carries(requests[j].response, ImageOfLength(3), "image/png")
        /\ Len(upstream) = 1
        /\ requests[i].put = "written" /\ requests[i].l2set = "stored"
        /\ storageGet(storage, requests[i].cacheKey).hit
        /\ redisGet(edgeCache.db, redisKeyOf(requests[i].cacheKey), TRUE, now).hit

\* the fetch of leader i completes in this step with an image
FetchSucceeds(i) ==
    /\ requests[i].pc = "fetching"
    /\ requests'[i].fetched # <<>>
    /\ ~requests'[i].fetched[1].error

IsImage(response) == response.status = 200 /\ response.data.length > 0

\* the writes of request i are under way: the put has not settled and the
\* SETEX is the last command sent, unanswered
WritesPending(i) ==
    /\ requests'[i].put = "pending"
    /\ \E p \in puts' : p.by = i
    /\ requests'[i].l2set = "pending"
    /\ edgeCache'.queue # <<>>
    /\ edgeCache'.queue[Len(edgeCache'.queue)].op = "setex"
    /\ edgeCache'.queue[Len(edgeCache'.queue)].by = i

\* C18: the step in which a fetch returns an image answers the leader and
\* every follower of the flight with the image while the L3 put and the L2
\* set are still under way; the back-fill of L2 on an L3 hit is under way
\* when the request is answered; a response once sent never changes, so
\* whether a write then succeeds or fails, the request that started it keeps
\* its 200 with the image.
C18_WritesNeverTouchResponse ==
    /\ [][\A i \in DOMAIN requests :
              FetchSucceeds(i) =>
                  /\ WritesPending(i)
                  /\ \A w \in DOMAIN promises[flights[requests[i].cacheKey]].waiters :
                         IsImage(requests'[promises[flights[requests[i].cacheKey]].waiters[w]]
                                     .response)]_vars
    /\ [][\A i \in DOMAIN requests :
              requests[i].response # Pending =>
                  requests'[i].response = requests[i].response]_vars
    /\ [](\A i \in DOMAIN requests :
              (requests[i].put # "none" \/ requests[i].l2set # "none") =>
                  requests[i].pc = "done" /\ IsImage(requests[i].response))

\* both writes of the leader failed: leader and follower keep the image
C18_Witness ==
    \E i, j \in DOMAIN requests :
        /\ requests[i].fetched = <<FetchedImage>>
        /\ requests[i].put = "failed" /\ requests[i].l2set = "failed"
        /\ IsImage(requests[i].response) /\ requests[i].response.xCacheTier = "ORIGIN"
        /\ requests[j].fetched = <<>> /\ requests[j].cacheKey = requests[i].cacheKey
        /\ Len(upstream) = 1
        /\ IsImage(requests[j].response) /\ requests[j].response.xCacheTier = "L2_EDGE"
        /\ ~storageGet(storage, requests[i].cacheKey).hit
        /\ edgeCache.db = <<>>

\* the back-fill of an L3 hit failed: the request keeps its image
C18_BackfillFailed ==
    \E i \in DOMAIN requests :
        /\ requests[i].response.status = 200
        /\ requests[i].response.xCacheTier = "L3_PERSISTENT"
        /\ requests[i].l2set = "failed"
        /\ IsImage(requests[i].response)

\* request i has started neither a fetch nor a write
StartedNothing(i) ==
    /\ requests[i].fetched = <<>>
    /\ requests[i].put = "none" /\ requests[i].l2set = "none"
    /\ \A g \in DOMAIN upstream : upstream[g].by # i
    /\ \A p \in puts : p.by # i
    /\ \A q \in DOMAIN edgeCache.queue : edgeCache.queue[q].op = "setex" => edgeCache.queue[q].by # i

\* the L2 read of request i fails in this step
L2ReadFails(i) == requests[i].l2 = "pending" /\ requests'[i].l2 = "failed"

\* the L3 read of request i ends in this step
L3ReadEnds(i) == requests[i].pc = "l3" /\ requests'[i].pc # "l3"

\* a command sent by a set or by a direct call fails in this step
WriteFails ==
    \/ \E i \in DOMAIN requests : requests[i].l2set = "pending" /\ requests'[i].l2set = "failed"
    \/ \E c \in DOMAIN callers : ~callers[c].failed /\ callers'[c].failed

\* C19: a failed read of the edge cache leaves the request unanswered and
\* starts its L3 probe, whatever the cache holds; a failed command of set,
\* delete or deleteByPrefix leaves the cache as it was and the method
\* resolves, and healthCheck resolves to false when its command fails; an
\* L3 read ends in a hit, in a miss (the request leads or joins a flight) or
\* in an exception, and a request whose L3 read threw is answered with an
\* error of status 500 and never starts a fetch or a write.
C19_ReadErrorPolicy ==
    /\ [][\A i \in DOMAIN requests :
              L2ReadFails(i) =>
                  /\ requests'[i].pc = "l3" /\ requests'[i].l3 = "probed"
                  /\ requests'[i].response = Pending
                  /\ edgeCache'.db = edgeCache.db]_vars
    /\ [][WriteFails => edgeCache'.db = edgeCache.db]_vars
    /\ [](\A c \in DOMAIN callers :
              callers[c].pc = "done" =>
                  /\ callers[c].result =
                         IF callers[c].method # "healthCheck" THEN <<"undefined">>
                         ELSE IF callers[c].failed THEN <<"false">> ELSE <<"true">>)
    /\ [][\A i \in DOMAIN requests :
              L3ReadEnds(i) =>
                  \/ /\ requests'[i].response.status = 200
                     /\ requests'[i].response.xCacheTier = "L3_PERSISTENT"
                  \/ /\ requests'[i].pc \in {"fetching", "awaiting"}
                     /\ requests'[i].response = Pending
                  \/ requests'[i].l3 = "failed"]_vars
    /\ [](\A i \in DOMAIN requests :
              requests[i].l3 = "failed" =>
                  /\ requests[i].pc = "done"
                  /\ requests[i].response.status = 500
                  /\ requests[i].response.code = "INTERNAL_ERROR"
                  /\ StartedNothing(i))

\* the image is in both tiers; the L2 read of the next request fails and
\* the request is served from L3
C19_Witness ==
    \E i, j \in DOMAIN requests :
        /\ requests[j].l2set = "stored" /\ requests[j].put = "written"
        /\ requests[i].cacheKey = requests[j].cacheKey
        /\ redisKeyOf(requests[i].cacheKey) \in DOMAIN edgeCache.db
        /\ requests[i].l2 = "failed"
        /\ requests[i].response.status = 200
        /\ requests[i].response.xCacheTier = "L3_PERSISTENT"

\* the L3 read of a request threw after its L2 read had failed
C19_L3ReadThrew ==
    \E i \in DOMAIN requests :
        /\ requests[i].l2 = "failed" /\ requests[i].l3 = "failed"
        /\ requests[i].response.status = 500

\* delete of a key the cache holds fails: the entry stays
C19_DeleteFailed ==
    \E c \in DOMAIN callers :
        /\ callers[c].method = "delete" /\ callers[c].failed /\ callers[c].pc = "done"
        /\ edgeCache.db # <<>>

\* deleteByPrefix removes the entry
C19_PrefixDeleted ==
    \E c \in DOMAIN callers : \E i \in DOMAIN requests :
        /\ callers[c].method = "deleteByPrefix" /\ ~callers[c].failed /\ callers[c].pc = "done"
        /\ requests[i].l2set = "stored"
        /\ edgeCache.db = <<>>

ErrorResponses == {i \in DOMAIN requests : requests[i].response.status >= 400}

\* C20: an error response with status 500 or above carries no text of the
\* error behind it (the message of a network error, for instance), and
\* every error response carries a code and the ID of its request.
C20_NoErrorTextAbove500 ==
    \A i \in ErrorResponses :
        /\ requests[i].response.status >= 500 =>
               requests[i].response.message.detail \notin NetworkErrorMessages
        /\ requests[i].response.code # ""
        /\ requests[i].response.requestId = i

\* the same with the message required to be the error handler's string
C20_GenericMessageAbove500 ==
    \A i \in ErrorResponses :
        requests[i].response.status >= 500 => requests[i].response.message = GenericMessage

\* the parts that hold: code and request ID in every error response, and
\* the generic message in every response made by the error handler
C20_CodeAndRequestId ==
    \A i \in ErrorResponses :
        /\ {"status", "code", "message", "requestId"} \subseteq DOMAIN requests[i].response
        /\ requests[i].response.code # ""
        /\ requests[i].response.requestId = i
        /\ requests[i].response.code = "INTERNAL_ERROR" =>
               requests[i].response.message = GenericMessage

\* a proxy request answered 502 FETCH_FAILED with the network error's
\* message in the body
C20_NetworkTextSent ==
    \E i \in DOMAIN requests :
        /\ requests[i].upstreamErrorMode = "relay"
        /\ requests[i].response.status = 502
        /\ requests[i].response.code = "FETCH_FAILED"
        /\ requests[i].response.message.detail \in NetworkErrorMessages

\* no response sent to a client is an UPSTREAM_ERROR of status 403
C16_NeverRelayed403 ==
    \A i \in ErrorResponses :
        requests[i].response.code = "UPSTREAM_ERROR" => requests[i].response.status # 403

ImageResponses ==
    {i \in DOMAIN requests :
        requests[i].response.status = 200 /\ "xCacheTier" \in DOMAIN requests[i].response}

\* C21: in every image response X-Cache is MISS exactly when X-Cache-Tier is
\* ORIGIN and HIT otherwise, X-Original-Size is present exactly when the
\* tier is ORIGIN (and is then the number of bytes fetched), and
\* Content-Length and X-Optimized-Size are the number of bytes sent.
C21_ImageHeaders ==
    \A i \in ImageResponses :
        /\ requests[i].response.xCacheTier \in {"ORIGIN", "L2_EDGE", "L3_PERSISTENT"}
        /\ requests[i].response.xCache \in {"MISS", "HIT"}
        /\ requests[i].response.xCache = "MISS" <=> requests[i].response.xCacheTier = "ORIGIN"
        /\ requests[i].response.xOriginalSize # <<>> <=>
               requests[i].response.xCacheTier = "ORIGIN"
        /\ requests[i].response.xCacheTier = "ORIGIN" =>
               /\ requests[i].fetched # <<>>
               /\ requests[i].response.xOriginalSize =
                      <<StringOf(requests[i].fetched[1].originalSize)>>
        /\ requests[i].response.contentLength = requests[i].response.data.length
        /\ requests[i].response.xOptimizedSize = StringOf(requests[i].response.data.length)

\* a resized image fetched once for two requests: the leader's response is
\* MISS / ORIGIN with X-Original-Size 3 and X-Optimized-Size 2, the
\* follower's HIT / L2_EDGE without X-Original-Size
C21_Witness ==
    \E i, j \in ImageResponses :
        /\ requests[i].fetched = <<FetchedImage>> /\ requests[i].optimized
        /\ requests[i].response.xCacheTier = "ORIGIN"
        /\ requests[i].response.xOriginalSize = <<StringOf(3)>>
        /\ requests[i].response.xOptimizedSize = StringOf(2)
        /\ requests[j].fetched = <<>> /\ requests[j].l3 = "probed"
        /\ requests[j].cacheKey = requests[i].cacheKey
        /\ requests[j].response.xCacheTier = "L2_EDGE"
        /\ requests[j].response.xCache = "HIT"
        /\ requests[j].response.xOriginalSize = <<>>
        /\ Len(upstream) = 1

\* ---------------------------------------------------------------------------
\* C22: DELETE /api/v1/cache with a page_id and no url is answered 501
\* NOT_IMPLEMENTED and changes no cache state; with neither url nor page_id it
\* is answered 400 MISSING_PARAMS.
\* ---------------------------------------------------------------------------
ByPageId(i) == i \in Purges /\ requests[i].req.url = <<>> /\ requests[i].req.pageId # <<>>

WithoutParams(i) == i \in Purges /\ requests[i].req.url = <<>> /\ requests[i].req.pageId = <<>>

\* C22 as stated: a DELETE with a page_id alone is answered 501
\* NOT_IMPLEMENTED, one with neither parameter 400 MISSING_PARAMS
C22_PageIdNotImplemented ==
    \A i \in Purges :
        /\ (ByPageId(i) /\ requests[i].pc = "done") =>
               /\ requests[i].response.status = 501
               /\ requests[i].response.code = "NOT_IMPLEMENTED"
        /\ (WithoutParams(i) /\ requests[i].pc = "done") =>
               /\ requests[i].response.status = 400
               /\ requests[i].response.code = "MISSING_PARAMS"

\* C22, the part the handler keeps: a DELETE with neither parameter is
\* answered 400 MISSING_PARAMS, and a DELETE without a url is answered at
\* once
C22_MissingParams ==
    \A i \in Purges :
        /\ WithoutParams(i) =>
               /\ requests[i].pc = "done"
               /\ requests[i].response.status = 400
               /\ requests[i].response.code = "MISSING_PARAMS"
        /\ ByPageId(i) => requests[i].pc = "done"

\* C22, the part the handler keeps: the step that takes a DELETE without a url
\* leaves L2 and L3 as they were
C22_NoUrlNoCacheChange ==
    [][(Len(requests') = Len(requests) + 1 /\ requests'[Len(requests')].req.route = "purge"
            /\ requests'[Len(requests')].req.url = <<>>)
         => (storage' = storage /\ edgeCache' = edgeCache)]_vars

\* a DELETE with a page_id alone, answered 200 as purged by page_id while the
\* image is held in L2 and in L3
C22_PageIdAnswered200 ==
    \E i \in Purges :
        /\ ByPageId(i)
        /\ requests[i].response.status = 200
        /\ requests[i].response.purgedBy = "page_id"
        /\ edgeCache.cache # <<>>
        /\ storage # EmptyFs

\* ---------------------------------------------------------------------------
\* C23: generateCacheKey(u, o1) = generateCacheKey(u, o2) exactly when o1 and
\* o2 are equivalent after format = original is normalised to absent; the
\* variant suffix is "original" exactly when every directive is absent, and
\* otherwise lists the present directives in the order w, h, f, q, fit joined
\* by "_".
\* ---------------------------------------------------------------------------
Directives == <<"width", "height", "format", "quality", "fit">>

\* the options with format = original taken for absent
Normalised(o) ==
    [d \in {e \in DOMAIN o : ~(e = "format" /\ o[e] = <<"o","r","i","g","i","n","a","l">>)} |-> o[d]]

Equivalent(o1, o2) ==
    /\ DOMAIN Normalised(o1) = DOMAIN Normalised(o2)
    /\ \A d \in DOMAIN Normalised(o1) : Normalised(o1)[d] = Normalised(o2)[d]

\* a directive as the key writes it
Written(d, value) ==
    CASE d = "width" -> <<"w">> \o StringOf(value)
      [] d = "height" -> <<"h">> \o StringOf(value)
      [] d = "format" -> <<"f">> \o value
      [] d = "quality" -> <<"q">> \o StringOf(value)
      [] d = "fit" -> <<"f","i","t">> \o value

\* the directives from position i on that o has, each followed by "_"
RECURSIVE Listed(_, _)
Listed(o, i) ==
    IF i > Len(Directives) THEN <<>>
    ELSE (IF Directives[i] \in DOMAIN o THEN Written(Directives[i], o[Directives[i]]) \o <<"_">>
          ELSE <<>>) \o Listed(o, i + 1)

ExpectedSuffix(o) ==
    IF DOMAIN Normalised(o) = {} THEN <<"o","r","i","g","i","n","a","l">>
    ELSE SubSeq(Listed(Normalised(o), 1), 1, Len(Listed(Normalised(o), 1)) - 1)

\* what follows the first "/" of a key
SuffixOf(key) == Tail1(key, IndexOfAny(key, {"/"}, 1) + 1)

\* C23: keys of one base URL are equal exactly for equivalent options, and the
\* suffix is "original" exactly when no directive is present after
\* normalising, the present directives in the order w, h, f, q, fit joined by
\* "_" otherwise
C23_KeyEqualIffEquivalent ==
    (call.fn = "generateCacheKey" /\ ret # <<>>) =>
        /\ (ret.key = ret.keyOfOther) <=> Equivalent(call.transform, call.other)
        /\ SuffixOf(ret.key) = ExpectedSuffix(call.transform)
        /\ (SuffixOf(ret.key) = <<"o","r","i","g","i","n","a","l">>)
               <=> (DOMAIN Normalised(call.transform) = {})

\* format = original beside a width against the width alone: one key, with
\* suffix w10; and against it the same width with a height: another key
C23_Witness ==
    /\ call.fn = "generateCacheKey" /\ ret # <<>>
    /\ call.transform = ("width" :> 10) @@ ("format" :> <<"o","r","i","g","i","n","a","l">>)
    /\ call.other = ("width" :> 10)
    /\ ret.key = ret.keyOfOther
    /\ SuffixOf(ret.key) = <<"w","1","0">>

\* all five directives present: w10_h10_fwebp_q1_fitcover
C23_AllDirectives ==
    /\ call.fn = "generateCacheKey" /\ ret # <<>>
    /\ DOMAIN call.transform = {"width", "height", "format", "quality", "fit"}
    /\ SuffixOf(ret.key) = <<"w","1","0","_","h","1","0","_","f","w","e","b","p","_","q","1","_","f","i","t","c","o","v","e","r">>
    /\ ret.key # ret.keyOfOther

\* ---------------------------------------------------------------------------
\* C24: generateCacheKey(u, o) begins with generateCachePrefix(u), the prefix
\* ends with "/", and generateCacheKey(u', o) begins with
\* generateCachePrefix(u) only if u' = u.
\* ---------------------------------------------------------------------------
\* C24: the key of a base URL begins with the prefix of that base URL, which
\* ends with "/"; the key of another base URL does not begin with it
C24_PrefixSelectsOneImage ==
    (call.fn = "generateCacheKey" /\ ret # <<>>) =>
        /\ startsWith(ret.key, ret.prefix)
        /\ startsWith(ret.keyOfOther, ret.prefix)
        /\ endsWith(ret.prefix, <<"/">>)
        /\ startsWith(ret.keyOfOtherUrl, ret.prefix) => call.otherUrl = call.baseUrl
        /\ call.otherUrl # call.baseUrl => ret.keyOfOtherUrl # ret.key

\* two base URLs and a resized variant: the key of the first begins with its
\* prefix, the key of the second does not
C24_Witness ==
    /\ call.fn = "generateCacheKey" /\ ret # <<>>
    /\ call.otherUrl # call.baseUrl
    /\ call.transform = ("width" :> 10)
    /\ startsWith(ret.key, ret.prefix)
    /\ ~startsWith(ret.keyOfOtherUrl, ret.prefix)
    /\ Len(ret.prefix) = HashWidth + 1

\* ---------------------------------------------------------------------------
\* C25: a request for K that passed its tier probes while a flight for K was
\* running and reaches the coordinator only after that flight has been
\* removed does not go straight to an upstream fetch: it falls through to the
\* L2 and L3 probes and fetches only if they still miss.
\* ---------------------------------------------------------------------------
\* request j led a flight for the key of request i that ran while i was
\* probing and has published: j was unanswered when i arrived, has fetched,
\* and is answered, which the leader is in the step that removes its flight
FlightPassed(i, j) ==
    /\ j # i /\ j \in Gets
    /\ requests[j].cacheKey = requests[i].cacheKey
    /\ j \notin requests[i].after
    /\ FetchesBy(j) # {}
    /\ requests[j].pc = "done"

\* request i reaches the coordinator in this step, after its probes
ReachesCoordinator(i) ==
    /\ ReadsL3(i)
    /\ requests'[i].pc \in {"fetching", "awaiting"}

\* C25: a request that reaches the coordinator after the flight that ran
\* during its probes was removed sends a GET only if L2 and L3 have no live
\* entry under its key by then
C25_LateRequestProbesAgain ==
    [][\A i \in DOMAIN requests :
          (/\ ReachesCoordinator(i)
           /\ \E j \in DOMAIN requests : FlightPassed(i, j)
           /\ SendsGet(i))
          => (/\ ~LiveInL2(requests[i].cacheKey)
              /\ ~storageExists(storage, requests[i].cacheKey))]_vars

\* C25, the part that holds: such a request sends its GET only with no entry
\* under its key in L3, since it reaches the coordinator in the step in which
\* its L3 read returns
C25_LateRequestSawL3Miss ==
    [][\A i \in DOMAIN requests :
          (/\ ReachesCoordinator(i)
           /\ \E j \in DOMAIN requests : FlightPassed(i, j)
           /\ SendsGet(i))
          => ~storageExists(storage, requests[i].cacheKey)]_vars

\* the late request is fetching from the upstream while L2 holds the live
\* entry that the flight it missed has written
C25_LateRequestFetches ==
    \E i \in Gets :
        /\ requests[i].pc = "fetching"
        /\ \E j \in DOMAIN requests :
              /\ FlightPassed(i, j)
              /\ GotImage(j) /\ requests[j].response.xCacheTier = "ORIGIN"
        /\ LiveInL2(requests[i].cacheKey)
        /\ Purges = {}

\* ---------------------------------------------------------------------------
\* C26: a flight entry for K exists only between the leader's registration
\* and the publication of its outcome: when the leader's do() returns or
\* throws the entry is removed, on success and on failure alike; a leader
\* never removes a flight registered by a later leader; at most one flight
\* per key exists; and with no call in progress activeFlights is 0.
\* ---------------------------------------------------------------------------
\* the leaders whose do() has not returned or thrown yet
AwaitingLeaders == {c \in Called : callers[c].role = "leader" /\ callers[c].pc = "awaiting"}

\* C26: the entries of the Map are exactly the flights of the leaders whose
\* do() is still running, one per key: every entry is the promise of one such
\* leader registered under its key, every such leader finds its own promise
\* under its key (no other call has removed or replaced it), no two of them
\* share a key, a leader whose do() has returned or thrown has its entry
\* removed, and activeFlights counts the running leaders, 0 with no call in
\* progress
C26_FlightLifetime ==
    /\ \A k \in DOMAIN flights :
          \E c \in AwaitingLeaders : callers[c].key = k /\ callers[c].promise = flights[k]
    /\ \A c \in AwaitingLeaders :
          HasFlight(flights, callers[c].key) /\ flights[callers[c].key] = callers[c].promise
    /\ \A c1, c2 \in AwaitingLeaders : callers[c1].key = callers[c2].key => c1 = c2
    /\ \A c \in Called :
          (callers[c].role = "leader" /\ callers[c].pc = "done") =>
              /\ promises[callers[c].promise].settled
              /\ (HasFlight(flights, callers[c].key) =>
                      flights[callers[c].key] # callers[c].promise)
    /\ activeFlights(flights) = Cardinality(AwaitingLeaders)
    /\ (\A c \in Called : callers[c].pc = "done") => activeFlights(flights) = 0

\* a leader's do() threw and its entry is gone; a later leader has
\* registered a flight under the same key, which is there while a follower of
\* the first flight has resumed with the first leader's error
C26_Witness ==
    \E l1, l2, f \in Called :
        /\ l1 < f /\ f < l2
        /\ callers[l1].role = "leader" /\ callers[l1].pc = "done"
        /\ callers[l1].outcome.kind = "threw"
        /\ callers[f].role = "follower" /\ callers[f].promise = callers[l1].promise
        /\ callers[f].pc = "done"
        /\ l2 \in AwaitingLeaders /\ callers[l2].key = callers[l1].key
        /\ flights[callers[l2].key] = callers[l2].promise
        /\ activeFlights(flights) = 1

\* every call has returned, one leader with its value, and no flight is left
C26_AllReturned ==
    /\ Called = DOMAIN callers
    /\ \A c \in Called : callers[c].pc = "done"
    /\ \E c \in Called : callers[c].role = "leader" /\ callers[c].outcome.kind = "returned"
    /\ activeFlights(flights) = 0

\* ---------------------------------------------------------------------------
\* C27: an entry for key K is written to L2 or L3 only by a pipeline run
\* whose upstream fetch for K succeeded, or by the back-fill of L2 from an
\* existing L3 entry; a flight that ends in a fetch error writes nothing to
\* either tier, so an error is never served from cache and a later request
\* after a failure fetches again.
\* ---------------------------------------------------------------------------
\* the fetch of request i returned an image
Succeeded(i) == requests[i].fetched # <<>> /\ ~requests[i].fetched[1].error

\* the fetch of request i returned an error
FailedToFetch(i) == requests[i].fetched # <<>> /\ requests[i].fetched[1].error

ServedFromL3(i) == GotImage(i) /\ requests[i].response.xCacheTier = "L3_PERSISTENT"

\* request i fetched the bytes under key, or read them from L3
SourceOf(i, key, data, contentType) ==
    /\ i \in Gets
    /\ requests[i].cacheKey = key
    /\ Succeeded(i) \/ ServedFromL3(i)
    /\ GotImage(i)
    /\ requests[i].response.data = data
    /\ requests[i].response.contentType = contentType

\* request i fetched the bytes under key
FetchedBy(i, key, data, contentType) == SourceOf(i, key, data, contentType) /\ Succeeded(i)

\* the SETEX commands sent and not yet answered
SetsUnderWay == {s \in DOMAIN edgeCache.queue : edgeCache.queue[s].op = "setex"}

\* C27: every write to L3, under way or landed, carries the bytes a request
\* has fetched under its key; every write to L2, under way or landed, carries
\* such bytes or the bytes a request has read from L3 under its key; a
\* request whose fetch returned an error, and a request that did not fetch or
\* read L3, has started no write; a response from a cache tier carries bytes
\* that some request has fetched under that key; and a request that arrives
\* after a failed fetch, with no successful fetch for the key by another
\* request, gets an image only by a fetch of its own
C27_OnlySuccessfulFetchesAreCached ==
    /\ \A p \in puts :
          FetchedBy(p.by, p.cacheKey, p.data, p.metadata.contentType)
    /\ \A path \in DOMAIN storage.files :
          \E i \in Gets :
              /\ Succeeded(i) /\ GotImage(i)
              /\ \/ /\ path = dataPath(sanitizeKey(requests[i].cacheKey))
                    /\ storage.files[path] = requests[i].response.data
                 \/ /\ path = metaPath(sanitizeKey(requests[i].cacheKey))
                    /\ storage.files[path].contentType = requests[i].response.contentType
    /\ \A s \in SetsUnderWay :
          \E key \in {requests[i].cacheKey : i \in Gets} :
              /\ edgeCache.queue[s].key = redisKeyOf(key)
              /\ SourceOf(edgeCache.queue[s].by, key, edgeCache.queue[s].value.data,
                          edgeCache.queue[s].value.contentType)
    /\ \A k \in DOMAIN edgeCache.db :
          \E i \in Gets :
              /\ k = redisKeyOf(requests[i].cacheKey)
              /\ SourceOf(i, requests[i].cacheKey, edgeCache.db[k].value.data,
                          edgeCache.db[k].value.contentType)
    /\ \A i \in Gets :
          (FailedToFetch(i) \/ ~(Succeeded(i) \/ ServedFromL3(i))) =>
              /\ requests[i].put = "none" /\ requests[i].l2set = "none"
              /\ \A p \in puts : p.by # i
              /\ \A s \in SetsUnderWay : edgeCache.queue[s].by # i
    /\ \A i \in Gets :
          (GotImage(i) /\ requests[i].response.xCache = "HIT") =>
              \E j \in Gets :
                  FetchedBy(j, requests[i].cacheKey, requests[i].response.data,
                            requests[i].response.contentType)
    /\ \A i, j \in Gets :
          (/\ FailedToFetch(i) /\ i \in requests[j].after
           /\ requests[j].cacheKey = requests[i].cacheKey
           /\ \A k \in Gets \ {j} : requests[k].cacheKey = requests[i].cacheKey => ~Succeeded(k))
          => (GotImage(j) =>
                 /\ Succeeded(j) /\ FetchesBy(j) # {}
                 /\ requests[j].response.xCacheTier = "ORIGIN")

\* a request whose fetch returned an error, both tiers empty afterwards, and
\* a later request for the same key that has fetched again and got the image
C27_Witness ==
    \E i, j \in Gets :
        /\ FailedToFetch(i) /\ i \in requests[j].after
        /\ requests[j].cacheKey = requests[i].cacheKey
        /\ requests[i].response.status >= 400
        /\ Succeeded(j) /\ FetchesBy(j) # {}
        /\ requests[j].response.xCacheTier = "ORIGIN"
        /\ puts # {} /\ SetsUnderWay # {}

\* an entry of L2 written by the back-fill of a request served from L3
C27_Backfilled ==
    \E i, j \in Gets :
        /\ Succeeded(i) /\ ServedFromL3(j) /\ requests[j].l2set = "stored"
        /\ requests[i].l2set = "failed"
        /\ redisKeyOf(requests[j].cacheKey) \in DOMAIN edgeCache.db

\* a fetch error with nothing written: both tiers empty and no write under way
C27_FailedFlightWroteNothing ==
    \E i \in Gets :
        /\ FailedToFetch(i) /\ requests[i].pc = "done"
        /\ storage = EmptyFs /\ edgeCache = EmptyRedisCache /\ puts = {}

\* ---------------------------------------------------------------------------
\* C28: on an L2 miss followed by an L3 hit the request is answered HIT /
\* L3_PERSISTENT with the L3 bytes and the stored content type, sends no
\* upstream fetch and does not enter the coordinator, and starts a back-fill
\* of L2 with the same bytes and content type; once that back-fill has
\* completed, a later request for the key is an L2_EDGE hit.
\* ---------------------------------------------------------------------------
\* the L3 read of request i returns an entry in this step
L3Hits(i) ==
    /\ requests[i].pc = "l3"
    /\ requests'[i].response # Pending
    /\ requests'[i].response.status = 200

\* the last command sent in this step is the SETEX of entry under key, by i
SetSent(i, key, data, contentType) ==
    /\ Len(edgeCache'.queue) = Len(edgeCache.queue) + 1
    /\ edgeCache'.db = edgeCache.db
    /\ edgeCache'.queue[Len(edgeCache'.queue)] =
           setex(redisKeyOf(key), CACHE_TTL_SECONDS,
                 serializeEntry([data |-> data, contentType |-> contentType]), i)

\* the GETBUFFER of request j is answered in this step, without an error
L2Answers(j) ==
    /\ requests[j].pc = "l2"
    /\ requests'[j].pc # "l2"
    /\ requests'[j].l2 # "failed"

\* request i was served from L3 and its back-fill has been stored, before
\* request j arrived, and L2 still holds an entry under the key
BackfilledBefore(i, j) ==
    /\ i \in requests[j].after
    /\ requests[i].cacheKey = requests[j].cacheKey
    /\ ServedFromL3(i)
    /\ requests[i].l2set = "stored"
    /\ redisKeyOf(requests[j].cacheKey) \in DOMAIN edgeCache.db

\* C28: the step in which the L3 read of a request returns an entry answers
\* it HIT / L3_PERSISTENT with the bytes and the content type L3 holds under
\* its key, sends no GET and leaves the coordinator alone, and sends the
\* SETEX of these bytes and this content type under the key; the request had
\* missed L2 and never fetches; when the SETEX is executed L2 holds these
\* bytes under the key; and a request that arrives after that, and whose L2
\* read finds the entry, is answered HIT / L2_EDGE with what L2 holds
C28_L3HitBackfillsL2 ==
    /\ [][\A i \in DOMAIN requests :
            /\ L3Hits(i) =>
                  /\ requests[i].l2 \in {"miss", "failed"}
                  /\ storageGet(storage, requests[i].cacheKey).hit
                  /\ requests'[i].pc = "done"
                  /\ requests'[i].response.xCache = "HIT"
                  /\ requests'[i].response.xCacheTier = "L3_PERSISTENT"
                  /\ requests'[i].response.data = storageGet(storage, requests[i].cacheKey).data
                  /\ requests'[i].response.contentType =
                         storageGet(storage, requests[i].cacheKey).metadata.contentType
                  /\ upstream' = upstream
                  /\ flights' = flights /\ promises' = promises
                  /\ requests'[i].l2set = "pending"
                  /\ SetSent(i, requests[i].cacheKey, requests'[i].response.data,
                             requests'[i].response.contentType)
            /\ (ServedFromL3(i) /\ SetLands(i)) =>
                  /\ redisKeyOf(requests[i].cacheKey) \in DOMAIN edgeCache'.db
                  /\ edgeCache'.db[redisKeyOf(requests[i].cacheKey)].value.data
                         = requests[i].response.data
                  /\ edgeCache'.db[redisKeyOf(requests[i].cacheKey)].value.contentType
                         = requests[i].response.contentType
            /\ (L2Answers(i) /\ \E h \in DOMAIN requests : BackfilledBefore(h, i)) =>
                  /\ requests'[i].pc = "done"
                  /\ requests'[i].response.status = 200
                  /\ requests'[i].response.xCache = "HIT"
                  /\ requests'[i].response.xCacheTier = "L2_EDGE"
                  /\ requests'[i].response.data
                         = edgeCache.db[redisKeyOf(requests[i].cacheKey)].value.data
                  /\ requests'[i].response.contentType
                         = edgeCache.db[redisKeyOf(requests[i].cacheKey)].value.contentType
                  /\ upstream' = upstream /\ storage' = storage]_vars
    /\ [](\A i \in DOMAIN requests :
             (i \in Gets /\ ServedFromL3(i)) => (FetchesBy(i) = {} /\ requests[i].fetched = <<>>))

\* a request served from L3 after missing L2, its back-fill stored, and a
\* later request for the key answered from L2 with the same bytes, with no
\* GET sent at all
C28_Witness ==
    \E i, j \in Gets :
        /\ ServedFromL3(i) /\ requests[i].l2 = "miss" /\ requests[i].l2set = "stored"
        /\ i \in requests[j].after
        /\ requests[j].cacheKey = requests[i].cacheKey
        /\ GotImage(j) /\ requests[j].response.xCacheTier = "L2_EDGE"
        /\ requests[j].response.data = requests[i].response.data
        /\ requests[j].response.contentType = requests[i].response.contentType
        /\ upstream = <<>>

\* ---------------------------------------------------------------------------
\* C29: MemoryCache.set(k, e, ttl) with size(e) <= maxBytes evicts entries
\* strictly in least-recently-used order (recency: the last successful get
\* or set) and only until entries < maxEntries and bytes + size(e) <=
\* maxBytes, then stores e as the most recently used entry; the cache holds at
\* most maxEntries entries and at most maxBytes bytes after any sequence of
\* operations, and no entry is evicted while a less recently used one remains.
\* ---------------------------------------------------------------------------
RECURSIVE BytesOf(_)
BytesOf(cache) ==
    IF cache = <<>> THEN 0 ELSE Head(cache).entry.data.length + BytesOf(Tail(cache))

\* the cache without the entry of key
Others(cache, key) == SelectSeq(cache, LAMBDA x : x.key # key)

\* dropping the first m entries of cache makes room for length bytes
RoomAfter(cache, m, length) ==
    /\ Len(cache) - m < maxEntries
    /\ BytesOf(SubSeq(cache, m + 1, Len(cache))) + length <= maxTotalBytes

\* the least number of entries of cache to drop for length bytes, all of
\* them when no number makes room
ToEvict(cache, length) ==
    MinOf({m \in 0..Len(cache) : RoomAfter(cache, m, length)} \cup {Len(cache)})

\* key x was used before key y
UsedBefore(x, y) == PositionIn(ret, x) < PositionIn(ret, y)

\* the cache within its limits, its byte count exact, one entry per key, and
\* its entries in the order of their last use
WithinLimits ==
    /\ Len(edgeCache.cache) <= maxEntries
    /\ edgeCache.currentBytes <= maxTotalBytes
    /\ edgeCache.currentBytes = BytesOf(edgeCache.cache)
    /\ \A a, b \in DOMAIN edgeCache.cache :
          a < b => /\ edgeCache.cache[a].key # edgeCache.cache[b].key
                   /\ UsedBefore(edgeCache.cache[a].key, edgeCache.cache[b].key)

\* C29: after set(k, e) with an entry that fits, the cache is what it was
\* without k, less the fewest entries from the least recently used end that
\* make room for e, plus e at the most recently used end; every entry evicted
\* was used before every entry kept; and the cache is within its limits
\* after every operation
C29_SetEvictsLeastRecentlyUsed ==
    /\ WithinLimits
    /\ (call.fn = "MemoryCache.set" /\ call.length <= maxTotalBytes) =>
          LET rest == Others(call.before.cache, call.key)
              n == ToEvict(rest, call.length)
              kept == SubSeq(rest, n + 1, Len(rest))
          IN  /\ RoomAfter(rest, n, call.length)
              /\ edgeCache.cache =
                     Append(kept, [key |-> call.key,
                                   entry |-> [data |-> ImageOfLength(call.length),
                                              contentType |-> "image/png", cachedAt |-> call.at],
                                   expiresAt |-> call.at + CACHE_TTL_SECONDS * 1000])
              /\ \A x \in 1..n, y \in (n + 1)..Len(rest) :
                     UsedBefore(rest[x].key, rest[y].key)
              /\ \A y \in DOMAIN kept : UsedBefore(kept[y].key, call.key)

\* a set of a third key that evicted one of two entries: the one used longer
\* ago is gone, the other is kept ahead of the new entry
C29_Witness ==
    /\ call.fn = "MemoryCache.set" /\ call.length <= maxTotalBytes
    /\ Len(call.before.cache) = 2
    /\ Slots(call.before.cache, call.key) = {}
    /\ UsedBefore(call.before.cache[1].key, call.before.cache[2].key)
    /\ Len(edgeCache.cache) = 2
    /\ edgeCache.cache[1] = call.before.cache[2]
    /\ edgeCache.cache[2].key = call.key
    /\ Slots(edgeCache.cache, call.before.cache[1].key) = {}

\* a set that evicted for bytes alone: one entry held, the new one does not
\* fit beside it
C29_EvictedForBytes ==
    /\ call.fn = "MemoryCache.set" /\ call.length <= maxTotalBytes
    /\ Len(call.before.cache) = 1
    /\ Slots(call.before.cache, call.key) = {}
    /\ Len(edgeCache.cache) = 1
    /\ edgeCache.cache[1].key = call.key

\* ---------------------------------------------------------------------------
\* C30: MemoryCache.get(k) returns the stored entry iff k is present and its
\* TTL, fixed at insertion, has not elapsed; an expired entry is removed by
\* the get and reported as a miss; a successful get makes k the most recently
\* used entry and changes nothing else (no other entry, no byte total, no
\* expiry time).
\* ---------------------------------------------------------------------------
\* the entry of key in cache, which holds one
StoredUnder(cache, key) == cache[CHOOSE i \in DOMAIN cache : cache[i].key = key]

Present(cache, key) == \E i \in DOMAIN cache : cache[i].key = key

\* C30: after get(k), the result is the stored entry when k was present and
\* the time of the call is not past the expiry fixed when the entry was
\* stored, and null otherwise; on a hit the cache is the same entries with
\* the same expiry times and the same byte total, the one of k moved to the
\* most recently used end; an expired entry is gone, its bytes deducted, the
\* rest as it was; a get of an absent key changes nothing; and the expiry of
\* every entry held is the time it was stored plus the TTL, whatever gets
\* came since
C30_GetHonoursTtlAndRecency ==
    /\ \A i \in DOMAIN edgeCache.cache :
          edgeCache.cache[i].expiresAt
              = edgeCache.cache[i].entry.cachedAt + CACHE_TTL_SECONDS * 1000
    /\ call.fn = "MemoryCache.get" =>
          LET before == call.before.cache
              live == Present(before, call.key)
                        /\ call.at <= StoredUnder(before, call.key).expiresAt
          IN  /\ call.result.hit <=> live
              /\ live =>
                    /\ call.result.entry = StoredUnder(before, call.key).entry
                    /\ edgeCache.cache =
                           Append(Others(before, call.key), StoredUnder(before, call.key))
                    /\ edgeCache.currentBytes = call.before.currentBytes
                    /\ ret # <<>> /\ ret[Len(ret)] = call.key
              /\ (Present(before, call.key) /\ ~live) =>
                    /\ edgeCache.cache = Others(before, call.key)
                    /\ edgeCache.currentBytes =
                           call.before.currentBytes
                             - StoredUnder(before, call.key).entry.data.length
              /\ ~Present(before, call.key) => edgeCache = call.before

\* a get that hit the entry at the least recently used end of two and moved
\* it behind the other
C30_Witness ==
    /\ call.fn = "MemoryCache.get" /\ call.result.hit
    /\ Len(call.before.cache) = 2
    /\ call.before.cache[1].key = call.key
    /\ edgeCache.cache = <<call.before.cache[2], call.before.cache[1]>>
    /\ edgeCache.currentBytes = call.before.currentBytes

\* a get past the expiry of the entry: a miss, and the entry is gone while
\* one stored later stays
C30_ExpiredRemoved ==
    /\ call.fn = "MemoryCache.get" /\ ~call.result.hit
    /\ Len(call.before.cache) = 2
    /\ Present(call.before.cache, call.key)
    /\ call.at > StoredUnder(call.before.cache, call.key).expiresAt
    /\ Len(edgeCache.cache) = 1
    /\ ~Present(edgeCache.cache, call.key)


\* ---------------------------------------------------------------------------
\* fetchUpstreamImage: the deadline and the catch
\* ---------------------------------------------------------------------------
\* what the call can return: the image, or an error value with a status (the
\* upstream's own for UPSTREAM_ERROR, 304 included) and a code
StructuredOutcome(outcome) ==
    IF outcome.error
    THEN /\ outcome.status \in 100..599
         /\ outcome.code \in {"INVALID_REDIRECT", "REDIRECT_BLOCKED", "UPSTREAM_ERROR",
                              "INVALID_CONTENT_TYPE", "IMAGE_TOO_LARGE", "EMPTY_RESPONSE",
                              "EMPTY_BODY", "TOO_MANY_REDIRECTS", "UPSTREAM_TIMEOUT",
                              "FETCH_FAILED"}
    ELSE outcome.originalSize = outcome.data.length /\ outcome.originalSize >= 1

\* the call is suspended at an await, the timer of line 53 pending
Awaiting == Fetching /\ call.phase \in {"fetch", "read"}

\* a step that ends the call without a response or a chunk having arrived and
\* without the body having ended: the await rejected
AwaitRejected ==
    /\ Awaiting /\ call'.phase = "done"
    /\ call'.answered = call.answered /\ call'.totalBytes = call.totalBytes
    /\ ret'[1].error /\ ret'[1].code \notin {"EMPTY_BODY"}

C31_Settled ==
    /\ Fetching => call.phase \in {"fetch", "read", "done"}
    /\ Awaiting => call.timer = "armed" /\ ret = <<>>
    /\ Returned =>
          /\ Len(ret) = 1 /\ StructuredOutcome(ret[1])
          /\ call.timer \in {"fired", "cleared"}
          /\ call.timer = "fired" <=> ret[1] = UpstreamTimeout(call.timeoutMs)
          /\ (ret[1].error /\ ret[1].code = "UPSTREAM_TIMEOUT") => ret[1].status = 504
          /\ (ret[1].error /\ ret[1].code = "FETCH_FAILED") =>
                \E m \in NetworkErrorMessages : ret[1] = FetchFailed(m)

C31_OneDeadline ==
    /\ (Fetching /\ Fetching') =>
          \* armed once, when the call starts; a hop or a chunk leaves it alone
          /\ (call'.timer # call.timer) => (call.timer = "armed" /\ call'.phase = "done")
          /\ call'.timeoutMs = call.timeoutMs
    /\ (~Fetching /\ Fetching') => (call'.timer = "armed" /\ call'.hop = 0)
    /\ AwaitRejected =>
          \/ call'.timer = "fired" /\ ret'[1].status = 504 /\ ret'[1].code = "UPSTREAM_TIMEOUT"
          \/ call'.timer = "cleared" /\ ret'[1].status = 502 /\ ret'[1].code = "FETCH_FAILED"

\* C31: fetchUpstreamImage always completes with the image or a structured
\* error value and never throws; one timer, armed when the call starts and
\* left alone by every redirect hop and every chunk read, ends the call with
\* UPSTREAM_TIMEOUT 504 when it fires at any await; any other rejection of
\* fetch() or of reader.read() ends it with FETCH_FAILED 502; and no timer is
\* pending once the call has returned.
C31_FetchAlwaysSettles ==
    /\ [](C31_Settled)
    /\ [][C31_OneDeadline]_vars
    /\ (Awaiting ~> (Returned /\ call.timer # "armed"))

\* the timer fired at the GET of a redirect target: the deadline of the first
\* hop still ran
C31_Witness ==
    /\ Returned /\ call.hop >= 1 /\ call.answered = call.hop
    /\ call.timer = "fired"
    /\ ret = <<UpstreamTimeout(15000)>>

\* the timer fired while the body was being read
C31_TimedOutReading ==
    /\ Returned /\ call.totalBytes >= 1 /\ call.timer = "fired"
    /\ ret[1].status = 504

\* the network failed at a redirect hop, the timer was cancelled
C31_FailedAtHop ==
    /\ Returned /\ call.hop >= 1 /\ call.timer = "cleared"
    /\ ret[1].error /\ ret[1].code = "FETCH_FAILED" /\ ret[1].status = 502


\* ---------------------------------------------------------------------------
\* parseNotionUrl
\* ---------------------------------------------------------------------------
Parsing == call.fn = "parseNotionUrl"

\* the call has been made on the drawn string
ParseDone == Parsing /\ ret # <<>>

\* C32: for every input string parseNotionUrl returns a parsed record or null
\* and never throws, so that the proxy route hands every URL that passes
\* validation to the pipeline, with the query-stripped raw URL as the base URL
\* when the parse is null.
C32_ParseNotionUrlTotal ==
    ParseDone =>
        /\ ret[1].parsed.kind \in {"parsed", "null"}
        /\ validateImageUrl(call.rawUrl, call.allowedDomains).valid =>
              /\ ~ret[1].route.reject
              /\ ret[1].parsed.kind = "null" =>
                    ret[1].route.cacheBaseUrl = split(call.rawUrl, "?")[1]

\* the same for the inputs whose decoded segments hold no malformed escape
C32_TotalOnWellFormedEscapes ==
    (ParseDone /\ ret[1].parsed.kind # "throw") =>
        /\ ret[1].parsed.kind \in {"parsed", "null"}
        /\ validateImageUrl(call.rawUrl, call.allowedDomains).valid =>
              /\ ~ret[1].route.reject
              /\ ret[1].route.upstreamUrl = call.rawUrl
              /\ ret[1].route.cacheBaseUrl =
                    IF ret[1].parsed.kind = "parsed" THEN ret[1].parsed.baseUrl
                    ELSE split(call.rawUrl, "?")[1]

\* a validated URL of a Notion host whose filename holds a bare "%":
\* decodeURIComponent throws URIError out of parseNotionUrl and the route
\* answers 500 through the error handler
C32_ParseThrew ==
    /\ ParseDone
    /\ call.rawUrl = NOTION_S3_HOST \o <<"/","w","s","1","/","b","l","k","1","/","1","0","0","%",".","p","n","g">>
    /\ validateImageUrl(call.rawUrl, call.allowedDomains).valid
    /\ ret[1].parsed.kind = "throw"
    /\ ret[1].route.reject /\ ret[1].route.response.status = 500
    /\ ret[1].route.response.code = "INTERNAL_ERROR"

\* the escapes of the repository's test are decoded
C32_EscapesDecoded ==
    /\ ParseDone /\ ret[1].parsed.kind = "parsed"
    /\ ret[1].parsed.workspaceId = <<"w","o","r","k"," ","s","p","a","c","e">>
    /\ ret[1].parsed.blockId = <<"b","l","o","c","k","/","i","d">>
    /\ ret[1].parsed.filename = <<"i","m","a","g","e"," ","n","a","m","e",".","p","n","g">>

\* a validated URL that is not Notion's: null, and the raw URL without its query
C32_NullFallsBack ==
    /\ ParseDone /\ ret[1].parsed.kind = "null"
    /\ ~ret[1].route.reject /\ includes(call.rawUrl, <<"?">>)
    /\ ret[1].route.cacheBaseUrl = split(call.rawUrl, "?")[1]


\* ---------------------------------------------------------------------------
\* parseIPv4 and isPrivateIPv4
\* ---------------------------------------------------------------------------
\* the reserved blocks as the first three octets of the base address and the
\* prefix length
PrivateBlocks ==
    { <<0, 0, 0, 8>>, <<10, 0, 0, 8>>, <<100, 64, 0, 10>>, <<127, 0, 0, 8>>,
      <<169, 254, 0, 16>>, <<172, 16, 0, 12>>, <<192, 0, 0, 24>>, <<192, 0, 2, 24>>,
      <<192, 168, 0, 16>>, <<198, 18, 0, 15>>, <<198, 51, 100, 24>>, <<203, 0, 113, 24>>,
      <<224, 0, 0, 4>>, <<240, 0, 0, 4>> }

\* a.b.c.d lies in the block: the leading bits agree (no block is longer than
\* 24 bits, so the last octet never matters)
InBlock(a, b, c, block) ==
    (a * 65536 + b * 256 + c) \div (2 ^ (24 - block[4]))
        = (block[1] * 65536 + block[2] * 256 + block[3]) \div (2 ^ (24 - block[4]))

OctetsOf(h) == [i \in 1..4 |-> NumberOf(split(h, ".")[i])]

HostChecked == call.fn = "isPrivateHost" /\ ret # <<>>

\* C33: for a dotted-decimal host with four octets of 0..255 and no leading
\* zeros, parseIPv4 yields the 32-bit address and the private-host predicate
\* is true exactly when the address lies in one of the fourteen reserved
\* blocks; a string with a leading-zero octet (or an octet above 255, or not
\* four parts) is not parsed as an IPv4 address.
C33_PrivateIffInReservedBlock ==
    HostChecked =>
        IF IsDottedQuad(call.hostname)
        THEN /\ ret[1].ip = OctetsOf(call.hostname)
             /\ ret[1].private <=>
                   \E block \in PrivateBlocks :
                       InBlock(OctetsOf(call.hostname)[1], OctetsOf(call.hostname)[2],
                               OctetsOf(call.hostname)[3], block)
        ELSE ret[1].ip = NoIp /\ ~ret[1].private

\* the last address of 240.0.0.0/4, whose word is negative as a signed number
C33_Witness ==
    /\ HostChecked
    /\ call.hostname = <<"2","5","5",".","2","5","5",".","2","5","5",".","2","5","5">>
    /\ ret[1].ip = <<255, 255, 255, 255>> /\ ret[1].private

\* the first address above 198.18.0.0/15 is public
C33_AboveBenchmarkBlock ==
    /\ HostChecked
    /\ call.hostname = <<"1","9","8",".","2","0",".","0",".","0">>
    /\ ret[1].ip = <<198, 20, 0, 0>> /\ ~ret[1].private

\* the last address of 100.64.0.0/10 is private, the next one is not
C33_CarrierGradeEdge ==
    /\ HostChecked
    /\ call.hostname = <<"1","0","0",".","1","2","7",".","2","5","5",".","2","5","5">>
    /\ ret[1].private /\ ~isPrivateHost(<<"1","0","0",".","1","2","8",".","0",".","0">>)

\* a leading zero: not an address
C33_LeadingZero ==
    /\ HostChecked
    /\ call.hostname = <<"0","1","0",".","0",".","0",".","1">>
    /\ ret[1].ip = NoIp /\ ~ret[1].private


\* ---------------------------------------------------------------------------
\* Coalescing and the upstream URL
\* ---------------------------------------------------------------------------
\* request j went through the coordinator and was answered with an error
AnsweredUpstreamError(j) ==
    /\ requests[j].pc = "done" /\ requests[j].l3 = "probed"
    /\ requests[j].response # Pending /\ requests[j].response.status >= 400

\* the GETs sent to upstreamUrl that returned an error
FailedGetsOf(upstreamUrl) ==
    { k \in DOMAIN upstream :
          /\ upstream[k].url = upstreamUrl
          /\ requests[upstream[k].by].fetched # <<>>
          /\ requests[upstream[k].by].fetched[1].error }

\* C34: a proxy request never receives an upstream-error response produced by
\* fetching another upstream URL than its own: every such response relays the
\* error of a GET sent to the request's own upstream URL under its key (so a
\* request whose URL is fetchable receives none).
C34_ErrorFromOwnUpstreamUrl ==
    \A j \in Gets :
        (requests[j].req.route = "proxy" /\ AnsweredUpstreamError(j)) =>
            \E k \in FailedGetsOf(requests[j].upstreamUrl) :
                /\ upstream[k].cacheKey = requests[j].cacheKey
                /\ Relayed(requests[j].response, requests[upstream[k].by].fetched[1])

\* the stable-path request led the flight and fetched the unsigned URL, the
\* upstream refused it with 403; the proxy request that joined the flight
\* with the signed URL of the same object is answered 502 UPSTREAM_ERROR,
\* and no GET was ever sent to its URL
C34_FollowerGotLeadersError ==
    \E i, j \in Gets :
        /\ requests[i].req.route = "stable" /\ requests[j].req.route = "proxy"
        /\ requests[i].cacheKey = requests[j].cacheKey
        /\ requests[j].upstreamUrl = VirtualHostedUrl
        /\ requests[i].upstreamUrl # requests[j].upstreamUrl
        /\ Len(upstream) = 1 /\ upstream[1].by = i /\ upstream[1].url = requests[i].upstreamUrl
        /\ requests[i].fetched = <<UpstreamError(403)>>
        /\ NotCached(requests[i].response)
        /\ AnsweredUpstreamError(j)
        /\ requests[j].response.status = 502 /\ requests[j].response.code = "UPSTREAM_ERROR"

\* what does hold: such a response relays the error of the one GET sent for
\* the flight the request joined or led, whatever URL that GET went to
C34_ErrorFromFlightOfKey ==
    \A j \in Gets :
        (requests[j].req.route = "proxy" /\ AnsweredUpstreamError(j)) =>
            \E k \in DOMAIN upstream :
                /\ upstream[k].cacheKey = requests[j].cacheKey
                /\ requests[upstream[k].by].fetched # <<>>
                /\ requests[upstream[k].by].fetched[1].error
                /\ Relayed(requests[j].response, requests[upstream[k].by].fetched[1])


\* ---------------------------------------------------------------------------
\* A purge and the work in flight
\* ---------------------------------------------------------------------------
\* the purge p of a URL was answered 200
PurgeAnswered(p) ==
    /\ requests[p].req.url # <<>>
    /\ requests[p].response # Pending /\ requests[p].response.status = 200

\* the GETs for a variant of the URL purged by p
VariantsOf(p) == {g \in Gets : startsWith(requests[g].cacheKey, requests[p].prefix)}

\* every GET for a variant of the URL had received its bytes (from L3 or from
\* the upstream) and sent its response when the purge p began, and nothing is
\* under way any more: no request, no write to L3
AllWorkOfBefore(p) ==
    /\ VariantsOf(p) # {}
    /\ \A g \in VariantsOf(p) : g \in requests[p].after
    /\ InFlight = {} /\ puts = {}

L2HoldsUnder(prefix) ==
    \E s \in DOMAIN edgeCache.cache : startsWith(edgeCache.cache[s].key, prefix)

L3HoldsUnder(prefix) ==
    \E g \in Gets : /\ startsWith(requests[g].cacheKey, prefix)
                    /\ storageGet(storage, requests[g].cacheKey).hit

\* C35: once the purge of U was answered 200 and all work that was in flight
\* during it has finished, its writes to L3 included, neither L2 nor L3 holds
\* an entry for a variant of U with bytes obtained before the purge began.
C35_PurgeOutlivesInFlightWork ==
    \A p \in Purges :
        (PurgeAnswered(p) /\ AllWorkOfBefore(p)) =>
            /\ ~L2HoldsUnder(requests[p].prefix)
            /\ ~L3HoldsUnder(requests[p].prefix)

\* the image was fetched and answered, its write to L3 still under way when
\* the purge began; the purge was answered 200; then the write landed: L3
\* holds the purged image
C35_PutLandedAfterPurge ==
    \E p \in Purges, g \in Gets :
        /\ PurgeAnswered(p) /\ AllWorkOfBefore(p)
        /\ g \in requests[p].after /\ g \notin requests[p].landed
        /\ FetchesBy(g) # {} /\ GotImage(g)
        /\ requests[g].put = "written"
        /\ storage.kind = "s3"
        /\ storageGet(storage, requests[g].cacheKey).hit
        /\ ~L2HoldsUnder(requests[p].prefix)

\* what does hold: L2 is empty of the URL, and so is L3 when every write
\* started before the purge had landed or failed before the purge began
C35_PurgeEffectiveOnceWritesLanded ==
    \A p \in Purges :
        (PurgeAnswered(p) /\ AllWorkOfBefore(p)) =>
            /\ ~L2HoldsUnder(requests[p].prefix)
            /\ (\A g \in VariantsOf(p) : QuietBefore(g, p)) =>
                  ~L3HoldsUnder(requests[p].prefix)


\* ---------------------------------------------------------------------------
\* The targets of the upstream GETs
\* ---------------------------------------------------------------------------
\* url is https, its host is in the configured allow-list and is not private
AllowedTarget(url, allowedDomains) == validateImageUrl(url, allowedDomains.set).valid

\* C36: every upstream GET the service issues, the initial one of either
\* route and every redirect hop, goes to an https URL whose host is in the
\* configured allow-list and is not private, whatever the allow-list is.
C36_EveryGetTargetsAllowedHost ==
    Fetching =>
        \A k \in DOMAIN upstream : AllowedTarget(upstream[k].url, call.allowedDomains)

\* ALLOWED_DOMAINS names images.unsplash.com alone; GET /img/ws1/blk1/a.png
\* is fetched from prod-files-secure.s3.us-west-2.amazonaws.com
C36_StablePathIgnoresAllowList ==
    /\ Fetching /\ call.req.route = "stable"
    /\ call.allowedDomains.set = { <<"i","m","a","g","e","s",".","u","n","s","p","l","a","s","h",".","c","o","m">> }
    /\ upstream[1].url = NOTION_S3_HOST \o <<"/","w","s","1","/","b","l","k","1","/","a",".","p","n","g">>
    /\ ParseUrl(upstream[1].url).hostname \notin call.allowedDomains.set
    /\ validateImageUrl(upstream[1].url, call.allowedDomains.set).errorCode = "DOMAIN_NOT_ALLOWED"

\* what does hold: the first GET of the proxy route and every redirect hop of
\* either route go to an allowed target; the first GET of the stable-path
\* route goes to the fixed Notion host over https, which is not private
C36_AllowedButForStableFirstGet ==
    Fetching =>
        /\ \A k \in DOMAIN upstream :
              (k >= 2 \/ call.req.route = "proxy") =>
                  AllowedTarget(upstream[k].url, call.allowedDomains)
        /\ call.req.route = "stable" =>
              /\ startsWith(upstream[1].url, NOTION_S3_HOST \o <<"/">>)
              /\ AllowedTarget(upstream[1].url, AllowedDomains(DefaultAllowedDomains))

\* a redirect followed under the widened allow-list
C36_HopFollowed ==
    /\ Fetching /\ Len(upstream) >= 3
    /\ \E k \in 2..Len(upstream) :
          ParseUrl(upstream[k].url).hostname = <<"e","v","i","l",".","e","x","a","m","p","l","e">>


\* ---------------------------------------------------------------------------
\* One response per request
\* ---------------------------------------------------------------------------
\* request i has sent its response
Answered(i) == i \in DOMAIN requests /\ requests[i].pc = "done" /\ requests[i].response # Pending

\* request i awaits the promise of a flight that is registered and unsettled
AwaitsLiveFlight(i) ==
    /\ HasFlight(flights, requests[i].cacheKey)
    /\ ~promises[flights[requests[i].cacheKey]].settled
    /\ \E w \in DOMAIN promises[flights[requests[i].cacheKey]].waiters :
          promises[flights[requests[i].cacheKey]].waiters[w] = i

C37_NoneLeftWaiting ==
    \A i \in Gets :
        /\ requests[i].pc = "done" <=> requests[i].response # Pending
        /\ requests[i].pc \in {"awaiting", "fetching"} => AwaitsLiveFlight(i)

C37_OneResponseEach ==
    /\ \A i \in DOMAIN requests :
          requests[i].response # Pending =>
              requests'[i].response = requests[i].response /\ requests'[i].pc = "done"
    /\ \A id \in DOMAIN promises :
          (~promises[id].settled /\ promises'[id].settled) =>
              \A w \in DOMAIN promises[id].waiters :
                  /\ requests[promises[id].waiters[w]].response = Pending
                  /\ requests'[promises[id].waiters[w]].response # Pending
                  /\ requests'[promises[id].waiters[w]].pc = "done"

\* C37: every request that enters the pipeline eventually sends exactly one
\* response, provided the L2 and L3 operations and the upstream fetch
\* terminate: a response once sent is never replaced, every caller of a
\* flight, leader or follower, is answered in the step that publishes the
\* leader's outcome, and no request waits on a flight that was removed.
C37_EveryRequestAnsweredOnce ==
    /\ [](C37_NoneLeftWaiting)
    /\ [][C37_OneResponseEach]_vars
    /\ \A i \in 1..MaxGets : (i \in Gets) ~> Answered(i)

\* a follower answered with its leader: one GET, two responses with the image
C37_Witness ==
    \E i, j \in Gets :
        /\ i # j /\ requests[i].cacheKey = requests[j].cacheKey
        /\ Len(upstream) = 1 /\ upstream[1].by = i
        /\ requests[j].l3 = "probed" /\ requests[j].fetched = <<>>
        /\ Answered(i) /\ Answered(j)
        /\ requests[i].response.status = 200 /\ requests[j].response.status = 200
        /\ requests[i].response.xCacheTier = "ORIGIN"
        /\ requests[j].response.xCacheTier = "L2_EDGE"
        /\ flights = NoFlights


\* ---------------------------------------------------------------------------
\* C38: every cache hit for a request with key K = cacheKey(u, o) serves
\* bytes that a pipeline run for the same K produced from an upstream fetch;
\* L2 and L3 never return, under K, bytes stored for a different base URL or
\* a different variant; the filesystem store maps distinct pipeline keys to
\* distinct file pairs.
\* ---------------------------------------------------------------------------
\* request i reached the pipeline, which computed its key
Keyed(i) == i \in Gets /\ requests[i].cacheKey # <<>>

\* what a pipeline run for request i produces from the object at its
\* upstream URL: the optimised image, or the object as fetched when the
\* optimiser throws
ProducedFor(i) ==
    {OutputOf(ObjectAt(requests[i].upstreamUrl), requests[i].transform, optimizeOk) :
        optimizeOk \in BOOLEAN}

Image(data, contentType) == [data |-> data, contentType |-> contentType]

\* the data file and the metadata file of a key
FilePairOf(key) == {dataPath(sanitizeKey(key)), metaPath(sanitizeKey(key))}

C38_OtherVariantMissed ==
    \E i, j \in Gets :
        /\ i < j /\ i \in requests[j].after
        /\ requests[i].req = ProxyRequest(VirtualHostedUrl, PlainVariant)
        /\ requests[j].req = ProxyRequest(VirtualHostedUrl, WebpVariant)
        /\ GotImage(i) /\ GotImage(j)
        /\ requests[j].response.xCacheTier = "ORIGIN"
        /\ requests[j].response.contentType = "image/webp"
        /\ storageGet(storage, requests[i].cacheKey).hit
        /\ storageGet(storage, requests[j].cacheKey).hit
        /\ storageGet(storage, requests[i].cacheKey).data
               # storageGet(storage, requests[j].cacheKey).data

\* the object signed again is served from L3 with the bytes the first
\* signature fetched, after the L2 entry expired
C38_ResignedHitsL3 ==
    \E i, j \in Gets :
        /\ requests[i].req = ProxyRequest(VirtualHostedUrl, PlainVariant)
        /\ requests[j].req = ProxyRequest(ResignedUrl, PlainVariant)
        /\ GotImage(i) /\ requests[i].response.xCacheTier = "ORIGIN"
        /\ GotImage(j) /\ requests[j].response.xCacheTier = "L3_PERSISTENT"
        /\ requests[j].response.data = requests[i].response.data


\* ---------------------------------------------------------------------------
\* C39: MemoryCache.set with an entry larger than the byte limit is a no-op:
\* the entry is not stored, and every entry that was in the cache before the
\* call, the one stored under the same key included, is still present and
\* retrievable afterwards.
\* ---------------------------------------------------------------------------
\* the last call was a set of an entry larger than maxTotalBytes
OversizeSet == call.fn = "MemoryCache.set" /\ call.length > maxTotalBytes

\* C39: after a set of an entry larger than the limit, no entry of that size
\* is held, and every key held before the call is held with the same entry
\* and the same expiry, and a get at the time of the call returns for it what
\* it would have returned before
C39_OversizeSetIsNoOp ==
    OversizeSet =>
        /\ \A i \in DOMAIN edgeCache.cache :
              edgeCache.cache[i].entry.data.length # call.length
        /\ \A k \in MemoryKeys :
              Present(call.before.cache, k) =>
                  /\ Present(edgeCache.cache, k)
                  /\ StoredUnder(edgeCache.cache, k) = StoredUnder(call.before.cache, k)
                  /\ memGetResult(edgeCache, k, call.at) = memGetResult(call.before, k, call.at)

\* a set of five bytes into a cache of four that held two live entries, one
\* of them under the key of the call: both are gone, a get of either misses
C39_OversizeSetEmptiedCache ==
    /\ OversizeSet
    /\ Len(call.before.cache) = 2
    /\ Present(call.before.cache, call.key)
    /\ \A k \in MemoryKeys :
          Present(call.before.cache, k) => memGetResult(call.before, k, call.at).hit
    /\ edgeCache.cache = <<>>
    /\ \A k \in MemoryKeys : ~memGetResult(edgeCache, k, call.at).hit

\* what the code does on a set of an entry larger than the limit: the entry
\* is not stored and the cache is left empty, with a byte total of zero
C39_OversizeSetLeavesCacheEmpty ==
    OversizeSet => edgeCache = EmptyMemoryCache

\* an entry under another key alone was evicted by the set of an entry
\* larger than the limit
C39_OtherKeyEvicted ==
    /\ OversizeSet
    /\ Len(call.before.cache) = 1
    /\ ~Present(call.before.cache, call.key)
    /\ edgeCache.cache = <<>>


\* ---------------------------------------------------------------------------
\* C40: after any sequence of get, set, delete and deleteByPrefix on a
\* MemoryCache, with TTL expiry on get, overwrites of an existing key,
\* evictions and rejected oversize sets, currentBytes equals the sum of the
\* data lengths of the entries in the map and is never negative.
\* ---------------------------------------------------------------------------
\* the keys an operation removed from the map
Removed == {k \in PrefixedKeys : Present(call.before.cache, k) /\ ~Present(edgeCache.cache, k)}

\* C40: currentBytes is the sum of the data lengths of the entries held and
\* is not negative; the map holds a key at most once; and the last operation
\* changed currentBytes by as much as it changed that sum
C40_CurrentBytesIsSumOfLengths ==
    /\ edgeCache.currentBytes = BytesOf(edgeCache.cache)
    /\ edgeCache.currentBytes >= 0
    /\ \A a, b \in DOMAIN edgeCache.cache :
          edgeCache.cache[a].key = edgeCache.cache[b].key => a = b
    /\ call # NoCall =>
          edgeCache.currentBytes - call.before.currentBytes
              = BytesOf(edgeCache.cache) - BytesOf(call.before.cache)

\* a deleteByPrefix that removed two entries of four bytes in all and left
\* an empty map with a byte total of zero
C40_Witness ==
    /\ call.fn = "MemoryCache.deleteByPrefix"
    /\ Cardinality(Removed) = 2
    /\ call.before.currentBytes = 4
    /\ edgeCache.cache = <<>> /\ edgeCache.currentBytes = 0

\* a deleteByPrefix that removed one entry of two and left the other
C40_PrefixRemovedOne ==
    /\ call.fn = "MemoryCache.deleteByPrefix"
    /\ Cardinality(Removed) = 1
    /\ Len(edgeCache.cache) = 1
    /\ ~startsWith(edgeCache.cache[1].key, call.prefix)
    /\ edgeCache.currentBytes = edgeCache.cache[1].entry.data.length

\* a get that found its entry expired and deducted its bytes
C40_ExpiredOnGet ==
    /\ call.fn = "MemoryCache.get"
    /\ Present(call.before.cache, call.key)
    /\ ~call.result.hit
    /\ Len(edgeCache.cache) = 1
    /\ edgeCache.currentBytes < call.before.currentBytes

\* a set that overwrote the entry of its key with one of another size
C40_Overwritten ==
    /\ call.fn = "MemoryCache.set"
    /\ Present(call.before.cache, call.key) /\ Present(edgeCache.cache, call.key)
    /\ StoredUnder(call.before.cache, call.key).entry.data.length = 1
    /\ StoredUnder(edgeCache.cache, call.key).entry.data.length = 3
    /\ Len(edgeCache.cache) = 2

\* a set that evicted an entry under another key to make room
C40_Evicted ==
    /\ call.fn = "MemoryCache.set" /\ call.length <= maxTotalBytes
    /\ Removed # {} /\ call.key \notin Removed
    /\ Present(edgeCache.cache, call.key)

\* a rejected oversize set that left a byte total of zero
C40_OversizeRejected ==
    /\ OversizeSet
    /\ call.before.currentBytes > 0
    /\ edgeCache.currentBytes = 0

=============================================================================
